---- MODULE Spec2Model ----
(***************************************************************************)
(* Blender MCP server: the Script Builder and Process Executor of          *)
(* blender_integration.py (BlenderManager), the tool functions of          *)
(* server.py, the handlers and the dispatcher of mcp_server.py, and the    *)
(* allow-listed catalog functions of subdivide_smooth.py and               *)
(* boolean_operations.py.                                                  *)
(*                                                                         *)
(* Python values are modelled as follows.  A dict is a function whose      *)
(* domain is a set of strings (a record).  A str that the code only passes *)
(* along is a TLA+ string; a str the code inspects (lower(), endswith(),   *)
(* dirname()) is a sequence of one-character strings.  A float is the      *)
(* string of its repr ("2.0").  A list / tuple of numbers is a record      *)
(* [kind, v].  Text built by an f-string, and every message text, is the   *)
(* sequence of its literal pieces and of the interpolated values' tokens.  *)
(***************************************************************************)
EXTENDS Integers, Sequences, FiniteSets, TLC

VARIABLES
    tempDirExists,   \* the directory self.temp_dir exists on disk
    scriptFile,      \* content of <temp_dir>/temp_script.py, or NoFile
    madeDirs,        \* directories created by os.makedirs
    call,            \* per caller: the tool call in flight (or idle)
    boot,            \* the server process: its start, its manager, its exit
    run              \* a generated script and its run inside Blender

vars == <<tempDirExists, scriptFile, madeDirs, call, boot, run>>

----------------------------------------------------------------------------
(* Bounds of the model *)

\* the callers are the call slots the specification starts with
Callers == DOMAIN call

----------------------------------------------------------------------------
(* Python values *)

\* Python's None (a string no text of the model uses)
None == "Py_None"

\* absence of the staged file on disk
NoFile == << <<"<no file>">> >>

\* a file opened with mode "w" (truncated) whose write did not complete
Truncated == << <<"<truncated>">> >>

EmptyDict == [k \in {} |-> TRUE]

\* dict.get(k, default)
Get(d, k, default) == IF k \in DOMAIN d THEN d[k] ELSE default

NoExc == [type |-> "none", msg |-> <<>>]

\* classes derived from Exception (KeyboardInterrupt and SystemExit are not)
ExceptionTypes ==
    {"TimeoutExpired", "FileNotFoundError", "PermissionError", "OSError",
     "AttributeError", "TypeError", "KeyError"}

----------------------------------------------------------------------------
(* BlenderManager: fixed fields set by __init__ *)

\* self.blender_executable, as __init__ resolved it
blender_executable == boot.executable

temp_dir == "/tmp/blender_mcp_x"

\* mutant: the script is staged under another name
script_file_Renamed == <<temp_dir, "/", "temp_script_2.py">>

\* os.path.join(self.temp_dir, "temp_script.py")
script_file == <<temp_dir, "/", "temp_script.py">>

----------------------------------------------------------------------------
(* Script Builder *)

TemplateHead ==
    << <<"import bpy">>, <<"import bmesh">>, <<"import json">>,
       <<"import sys">>, <<"import traceback">>,
       <<"def main():">>, <<"try:">>,
       <<"bpy.ops.object.select_all(action='SELECT')">>,
       <<"bpy.ops.object.delete(use_global=False, confirm=False)">>,
       <<"results = []">> >>

TemplateTail ==
    << <<"print(\"BLENDER_MCP_SUCCESS:\", json.dumps({\"success\": True, \"results\": results}))">>,
       <<"except Exception as e:">>,
       <<"error_info = {\"success\": False, \"error\": str(e), \"traceback\": traceback.format_exc()}">>,
       <<"print(\"BLENDER_MCP_ERROR:\", json.dumps(error_info))">>,
       <<"sys.exit(1)">>,
       <<"if __name__ == \"__main__\":">>, <<"main()">> >>

\* mutant: the statements are spliced in last to first
create_basic_script_Reversed(operations) ==
    TemplateHead
    \o [i \in 1..Len(operations) |-> operations[Len(operations) + 1 - i]]
    \o TemplateTail

\* create_basic_script: the statements joined by "\n        " take the place
\* of {operations} in the template; a script is the sequence of its lines
create_basic_script(operations) == TemplateHead \o operations \o TemplateTail

----------------------------------------------------------------------------
(* Process Executor: outcomes of the environment *)

\* open(script_file, "w") and f.write(script)
WriteOutcomes == {"ok", "open_denied", "write_failed"}

\* subprocess.run: starting the process
LaunchOutcomes == {"started", "exe_missing", "exe_denied"}

\* what a finished process leaves: exit code, stdout, stderr
ReturnCodes == {0, 1}
Stdouts == {"BLENDER_MCP_SUCCESS: {...}", "BLENDER_MCP_ERROR: {...}"}
Stderrs == {"", "Traceback ..."}

\* os.remove(script_file)
RemoveOutcomes == {"ok", "denied"}

\* mutant: the headless flags are passed whether or not a file is opened
BuildCmd_FlagsAlways(blend_file) ==
    <<blender_executable>>
    \o (IF blend_file \notin {None, ""} THEN <<blend_file>> ELSE <<>>)
    \o <<"--background", "--factory-startup">>
    \o <<"--python", script_file>>

\* the command line of lines 68-76; "if blend_file:" is false for None and
\* for the empty string
BuildCmd(blend_file) ==
    <<blender_executable>>
    \o (IF blend_file \notin {None, ""} THEN <<blend_file>>
        ELSE <<"--background", "--factory-startup">>)
    \o <<"--python", script_file>>

\* mutant: success read off stderr instead of the exit code
NormalResult_FromStderr(proc) ==
    [success |-> (proc.stderr = ""),
     stdout |-> proc.stdout,
     stderr |-> proc.stderr,
     returncode |-> proc.returncode]

\* mutant: an error marker in stdout makes the result a failure
NormalResult_MarkerParsed(proc) ==
    [success |-> (proc.returncode = 0 /\ proc.stdout # "BLENDER_MCP_ERROR: {...}"),
     stdout |-> proc.stdout,
     stderr |-> proc.stderr,
     returncode |-> proc.returncode]

\* return value of the normal path, lines 85-90
NormalResult(proc) ==
    [success |-> (proc.returncode = 0),
     stdout |-> proc.stdout,
     stderr |-> proc.stderr,
     returncode |-> proc.returncode]

\* return value of "except subprocess.TimeoutExpired", lines 92-97
TimeoutResult ==
    [success |-> FALSE,
     error |-> <<"Blender script execution timed out">>,
     timeout |-> TRUE]

\* return value of "except Exception as e", lines 98-103
ErrorResult(e) == [success |-> FALSE, error |-> e.msg]

\* mutant: the generic clause comes first and takes the timeout as well
ExecuteHandlers_GenericFirst(e) ==
    IF e.type \in ExceptionTypes THEN [ret |-> ErrorResult(e), exc |-> NoExc]
    ELSE [ret |-> EmptyDict, exc |-> e]

\* mutant: no generic clause, only the timeout is caught
ExecuteHandlers_TimeoutOnly(e) ==
    IF e.type = "TimeoutExpired" THEN [ret |-> TimeoutResult, exc |-> NoExc]
    ELSE [ret |-> EmptyDict, exc |-> e]

\* the except clauses of execute_blender_script, in their order: what an
\* exception raised inside the try block becomes.  [ret] is a returned
\* result, [exc] an exception that leaves the function.
ExecuteHandlers(e) ==
    IF e.type = "TimeoutExpired" THEN [ret |-> TimeoutResult, exc |-> NoExc]
    ELSE IF e.type \in ExceptionTypes THEN [ret |-> ErrorResult(e), exc |-> NoExc]
    ELSE [ret |-> EmptyDict, exc |-> e]

----------------------------------------------------------------------------
(* Values the tools take *)

\* a 3-tuple / list of numbers; repr() as an f-string writes it
Tuple3(a, b, c) == [kind |-> "tuple", v |-> <<a, b, c>>]
List3(a, b, c) == [kind |-> "list", v |-> <<a, b, c>>]

\* a value that is no sequence (a caller passing a number for location)
Scalar(a) == [kind |-> "number", v |-> <<a>>]

\* f"{x}" of a tuple, a list or a number
Repr(x) ==
    IF x.kind = "tuple"
    THEN <<"(", x.v[1], ", ", x.v[2], ", ", x.v[3], ")">>
    ELSE IF x.kind = "list"
    THEN <<"[", x.v[1], ", ", x.v[2], ", ", x.v[3], "]">>
    ELSE <<x.v[1]>>

\* tuple(x) can be taken of a sequence only
TupleRaises(x) == x.kind = "number"

TupleOf(x) == [kind |-> "tuple", v |-> x.v]

\* mutant: a result without stdout is reported in blender_output
BlenderOutput_OrError(result) ==
    IF "stdout" \in DOMAIN result THEN result.stdout ELSE "execution failed"

\* the result fields every tool response relays
BlenderOutput(result) == Get(result, "stdout", "")

\* mutant: stderr is relayed whether or not the execution succeeded
Errors_Always(result) == Get(result, "stderr", "")

Errors(result) == IF ~result.success THEN Get(result, "stderr", "") ELSE None

----------------------------------------------------------------------------
(* server.py: primitive creation tools.  `a` holds the bound parameters. *)

create_cube_bind(args) ==
    [size |-> Get(args, "size", "2.0"),
     location |-> Get(args, "location", Tuple3("0", "0", "0")),
     name |-> Get(args, "name", "Cube")]

\* mutant: the object is renamed before it is created
create_cube_ops_RenameFirst(a) ==
    << <<"bpy.context.active_object.name = \"", a.name, "\"">>,
       <<"bpy.ops.mesh.primitive_cube_add(size=", a.size, ", location=">>
          \o Repr(a.location) \o <<")">>,
       <<"results.append({\"object\": \"", a.name, "\", \"type\": \"cube\", \"size\": ",
         a.size, ", \"location\": ">> \o Repr(a.location) \o <<"})">> >>

create_cube_ops(a) ==
    << <<"bpy.ops.mesh.primitive_cube_add(size=", a.size, ", location=">>
          \o Repr(a.location) \o <<")">>,
       <<"bpy.context.active_object.name = \"", a.name, "\"">>,
       <<"results.append({\"object\": \"", a.name, "\", \"type\": \"cube\", \"size\": ",
         a.size, ", \"location\": ">> \o Repr(a.location) \o <<"})">> >>

create_cube_response(a, result) ==
    [success |-> result.success,
     object_name |-> a.name,
     object_type |-> "cube",
     parameters |-> [size |-> a.size, location |-> a.location],
     blender_output |-> BlenderOutput(result),
     errors |-> Errors(result)]

create_sphere_bind(args) ==
    [radius |-> Get(args, "radius", "1.0"),
     location |-> Get(args, "location", Tuple3("0", "0", "0")),
     name |-> Get(args, "name", "Sphere")]

create_sphere_ops(a) ==
    << <<"bpy.ops.mesh.primitive_uv_sphere_add(radius=", a.radius, ", location=">>
          \o Repr(a.location) \o <<")">>,
       <<"bpy.context.active_object.name = \"", a.name, "\"">>,
       <<"results.append({\"object\": \"", a.name, "\", \"type\": \"sphere\", \"radius\": ",
         a.radius, ", \"location\": ">> \o Repr(a.location) \o <<"})">> >>

create_sphere_response(a, result) ==
    [success |-> result.success,
     object_name |-> a.name,
     object_type |-> "sphere",
     parameters |-> [radius |-> a.radius, location |-> a.location],
     blender_output |-> BlenderOutput(result),
     errors |-> Errors(result)]

create_cylinder_bind(args) ==
    [radius |-> Get(args, "radius", "1.0"),
     depth |-> Get(args, "depth", "2.0"),
     location |-> Get(args, "location", Tuple3("0", "0", "0")),
     name |-> Get(args, "name", "Cylinder")]

create_cylinder_ops(a) ==
    << <<"bpy.ops.mesh.primitive_cylinder_add(radius=", a.radius, ", depth=", a.depth,
         ", location=">> \o Repr(a.location) \o <<")">>,
       <<"bpy.context.active_object.name = \"", a.name, "\"">>,
       <<"results.append({\"object\": \"", a.name, "\", \"type\": \"cylinder\", \"radius\": ",
         a.radius, ", \"depth\": ", a.depth, ", \"location\": ">>
          \o Repr(a.location) \o <<"})">> >>

create_cylinder_response(a, result) ==
    [success |-> result.success,
     object_name |-> a.name,
     object_type |-> "cylinder",
     parameters |-> [radius |-> a.radius, depth |-> a.depth, location |-> a.location],
     blender_output |-> BlenderOutput(result),
     errors |-> Errors(result)]

create_plane_bind(args) ==
    [size |-> Get(args, "size", "2.0"),
     location |-> Get(args, "location", Tuple3("0", "0", "0")),
     name |-> Get(args, "name", "Plane")]

create_plane_ops(a) ==
    << <<"bpy.ops.mesh.primitive_plane_add(size=", a.size, ", location=">>
          \o Repr(a.location) \o <<")">>,
       <<"bpy.context.active_object.name = \"", a.name, "\"">>,
       <<"results.append({\"object\": \"", a.name, "\", \"type\": \"plane\", \"size\": ",
         a.size, ", \"location\": ">> \o Repr(a.location) \o <<"})">> >>

create_plane_response(a, result) ==
    [success |-> result.success,
     object_name |-> a.name,
     object_type |-> "plane",
     parameters |-> [size |-> a.size, location |-> a.location],
     blender_output |-> BlenderOutput(result),
     errors |-> Errors(result)]

create_cone_bind(args) ==
    [radius1 |-> Get(args, "radius1", "1.0"),
     radius2 |-> Get(args, "radius2", "0.0"),
     depth |-> Get(args, "depth", "2.0"),
     location |-> Get(args, "location", Tuple3("0", "0", "0")),
     name |-> Get(args, "name", "Cone")]

create_cone_ops(a) ==
    << <<"bpy.ops.mesh.primitive_cone_add(radius1=", a.radius1, ", radius2=", a.radius2,
         ", depth=", a.depth, ", location=">> \o Repr(a.location) \o <<")">>,
       <<"bpy.context.active_object.name = \"", a.name, "\"">>,
       <<"results.append({\"object\": \"", a.name, "\", \"type\": \"cone\", \"radius1\": ",
         a.radius1, ", \"radius2\": ", a.radius2, ", \"depth\": ", a.depth,
         ", \"location\": ">> \o Repr(a.location) \o <<"})">> >>

\* mutant: the two radii echoed in each other's place
create_cone_response_Swapped(a, result) ==
    [success |-> result.success,
     object_name |-> a.name,
     object_type |-> "cone",
     parameters |-> [radius1 |-> a.radius2, radius2 |-> a.radius1, depth |-> a.depth,
                     location |-> a.location],
     blender_output |-> BlenderOutput(result),
     errors |-> Errors(result)]

create_cone_response(a, result) ==
    [success |-> result.success,
     object_name |-> a.name,
     object_type |-> "cone",
     parameters |-> [radius1 |-> a.radius1, radius2 |-> a.radius2, depth |-> a.depth,
                     location |-> a.location],
     blender_output |-> BlenderOutput(result),
     errors |-> Errors(result)]

----------------------------------------------------------------------------
(* mcp_server.py: the handlers of the primitive creation tools.  `a` holds  *)
(* the locals read from the arguments dict with arguments.get.              *)

\* json.dumps writes a tuple as an array; a JSON text is modelled by the
\* value it encodes
JsonArray(x) == IF x.kind = "tuple" THEN [x EXCEPT !.kind = "list"] ELSE x

JsonDumps(d) ==
    [k \in DOMAIN d |->
        IF k = "parameters"
        THEN [j \in DOMAIN d[k] |->
                 IF j = "location" THEN JsonArray(d[k][j]) ELSE d[k][j]]
        ELSE d[k]]

\* the text of a TextContent: a JSON document or plain text
Json(d) == [json |-> JsonDumps(d)]
Plain(t) == [plain |-> t]

\* [TextContent(type="text", text=...)]
TextContent(text) == <<[type |-> "text", text |-> text]>>

handle_create_cube_bind(arguments) ==
    [size |-> Get(arguments, "size", "2.0"),
     location |-> Get(arguments, "location", List3("0", "0", "0")),
     name |-> Get(arguments, "name", "Cube")]

handle_create_cube_ops(a) ==
    << <<"bpy.ops.mesh.primitive_cube_add(size=", a.size, ", location=">>
          \o Repr(TupleOf(a.location)) \o <<")">>,
       <<"bpy.context.active_object.name = \"", a.name, "\"">>,
       <<"results.append({\"object\": \"", a.name, "\", \"type\": \"cube\", \"size\": ", a.size, ", \"location\": ">>
          \o Repr(a.location) \o <<"})">> >>

handle_create_cube_response(a, result) ==
    TextContent(Json(
        [success |-> result.success,
         object_name |-> a.name,
         object_type |-> "cube",
         parameters |-> [size |-> a.size, location |-> a.location],
         blender_output |-> BlenderOutput(result),
         errors |-> Errors(result)]))

handle_create_sphere_bind(arguments) ==
    [radius |-> Get(arguments, "radius", "1.0"),
     location |-> Get(arguments, "location", List3("0", "0", "0")),
     name |-> Get(arguments, "name", "Sphere")]

handle_create_sphere_ops(a) ==
    << <<"bpy.ops.mesh.primitive_uv_sphere_add(radius=", a.radius, ", location=">>
          \o Repr(TupleOf(a.location)) \o <<")">>,
       <<"bpy.context.active_object.name = \"", a.name, "\"">>,
       <<"results.append({\"object\": \"", a.name, "\", \"type\": \"sphere\", \"radius\": ", a.radius, ", \"location\": ">>
          \o Repr(a.location) \o <<"})">> >>

handle_create_sphere_response(a, result) ==
    TextContent(Json(
        [success |-> result.success,
         object_name |-> a.name,
         object_type |-> "sphere",
         parameters |-> [radius |-> a.radius, location |-> a.location],
         blender_output |-> BlenderOutput(result),
         errors |-> Errors(result)]))

handle_create_cylinder_bind(arguments) ==
    [radius |-> Get(arguments, "radius", "1.0"),
     depth |-> Get(arguments, "depth", "2.0"),
     location |-> Get(arguments, "location", List3("0", "0", "0")),
     name |-> Get(arguments, "name", "Cylinder")]

handle_create_cylinder_ops(a) ==
    << <<"bpy.ops.mesh.primitive_cylinder_add(radius=", a.radius, ", depth=", a.depth, ", location=">>
          \o Repr(TupleOf(a.location)) \o <<")">>,
       <<"bpy.context.active_object.name = \"", a.name, "\"">>,
       <<"results.append({\"object\": \"", a.name, "\", \"type\": \"cylinder\", \"radius\": ", a.radius, ", \"depth\": ", a.depth, ", \"location\": ">>
          \o Repr(a.location) \o <<"})">> >>

handle_create_cylinder_response(a, result) ==
    TextContent(Json(
        [success |-> result.success,
         object_name |-> a.name,
         object_type |-> "cylinder",
         parameters |-> [radius |-> a.radius, depth |-> a.depth, location |-> a.location],
         blender_output |-> BlenderOutput(result),
         errors |-> Errors(result)]))

handle_create_plane_bind(arguments) ==
    [size |-> Get(arguments, "size", "2.0"),
     location |-> Get(arguments, "location", List3("0", "0", "0")),
     name |-> Get(arguments, "name", "Plane")]

handle_create_plane_ops(a) ==
    << <<"bpy.ops.mesh.primitive_plane_add(size=", a.size, ", location=">>
          \o Repr(TupleOf(a.location)) \o <<")">>,
       <<"bpy.context.active_object.name = \"", a.name, "\"">>,
       <<"results.append({\"object\": \"", a.name, "\", \"type\": \"plane\", \"size\": ", a.size, ", \"location\": ">>
          \o Repr(a.location) \o <<"})">> >>

handle_create_plane_response(a, result) ==
    TextContent(Json(
        [success |-> result.success,
         object_name |-> a.name,
         object_type |-> "plane",
         parameters |-> [size |-> a.size, location |-> a.location],
         blender_output |-> BlenderOutput(result),
         errors |-> Errors(result)]))

handle_create_cone_bind(arguments) ==
    [radius1 |-> Get(arguments, "radius1", "1.0"),
     radius2 |-> Get(arguments, "radius2", "0.0"),
     depth |-> Get(arguments, "depth", "2.0"),
     location |-> Get(arguments, "location", List3("0", "0", "0")),
     name |-> Get(arguments, "name", "Cone")]

handle_create_cone_ops(a) ==
    << <<"bpy.ops.mesh.primitive_cone_add(radius1=", a.radius1, ", radius2=", a.radius2, ", depth=", a.depth, ", location=">>
          \o Repr(TupleOf(a.location)) \o <<")">>,
       <<"bpy.context.active_object.name = \"", a.name, "\"">>,
       <<"results.append({\"object\": \"", a.name, "\", \"type\": \"cone\", \"radius1\": ", a.radius1, ", \"radius2\": ", a.radius2, ", \"depth\": ", a.depth, ", \"location\": ">>
          \o Repr(a.location) \o <<"})">> >>

handle_create_cone_response(a, result) ==
    TextContent(Json(
        [success |-> result.success,
         object_name |-> a.name,
         object_type |-> "cone",
         parameters |-> [radius1 |-> a.radius1, radius2 |-> a.radius2, depth |-> a.depth, location |-> a.location],
         blender_output |-> BlenderOutput(result),
         errors |-> Errors(result)]))

----------------------------------------------------------------------------
(* str operations on strings held as sequences of characters *)

UpperCase == <<"A", "B", "C", "D", "E", "F", "G", "H", "I", "J", "K", "L", "M",
               "N", "O", "P", "Q", "R", "S", "T", "U", "V", "W", "X", "Y", "Z">>
LowerCase == <<"a", "b", "c", "d", "e", "f", "g", "h", "i", "j", "k", "l", "m",
               "n", "o", "p", "q", "r", "s", "t", "u", "v", "w", "x", "y", "z">>

LowerChar(ch) ==
    IF \E i \in 1..Len(UpperCase) : UpperCase[i] = ch
    THEN LowerCase[CHOOSE i \in 1..Len(UpperCase) : UpperCase[i] = ch]
    ELSE ch

\* str.lower()
Lower(str) == [i \in 1..Len(str) |-> LowerChar(str[i])]

\* str.endswith(suffix)
EndsWith(str, suffix) ==
    /\ Len(suffix) <= Len(str)
    /\ SubSeq(str, Len(str) - Len(suffix) + 1, Len(str)) = suffix

\* str.rstrip("/")
RECURSIVE RStripSlash(_)
RStripSlash(str) ==
    IF str # <<>> /\ str[Len(str)] = "/"
    THEN RStripSlash(SubSeq(str, 1, Len(str) - 1))
    ELSE str

\* os.path.dirname (posixpath): the part before the last "/", its trailing
\* slashes removed unless it consists of slashes only
dirname(path) ==
    LET slashes == {i \in 1..Len(path) : path[i] = "/"}
        i == IF slashes = {} THEN 0 ELSE CHOOSE m \in slashes : \A n \in slashes : n <= m
        head == SubSeq(path, 1, i)
    IN IF head # <<>> /\ \E j \in 1..Len(head) : head[j] # "/"
       THEN RStripSlash(head)
       ELSE head

\* os.makedirs(name, exist_ok=True): what the environment lets it do
MakedirsOutcomes == {"ok", "denied"}

\* mutant: an empty name is taken for the current directory
MakedirsExc_EmptyOk(name, mk) ==
    IF name # <<>> /\ mk = "denied"
    THEN [type |-> "PermissionError", msg |-> <<"Permission denied">>]
    ELSE NoExc

\* the exception os.makedirs raises, or NoExc
MakedirsExc(name, mk) ==
    IF name = <<>>
    THEN [type |-> "FileNotFoundError", msg |-> <<"No such file or directory: ''">>]
    ELSE IF mk = "denied"
    THEN [type |-> "PermissionError", msg |-> <<"Permission denied">>]
    ELSE NoExc

\* f"{b}" of a bool
BoolRepr(b) == IF b THEN "True" ELSE "False"

\* what a tool function does before it calls the executor
ReturnNow(response) == [kind |-> "return", response |-> response]
RaiseNow(e) == [kind |-> "raise", exc |-> e]
Execute(locals, script, dirs) ==
    [kind |-> "execute", locals |-> locals, script |-> script, mkdirs |-> dirs]

----------------------------------------------------------------------------
(* server.py: export_model *)

\* mutant: a format added to the allow-list
supported_formats_WithGltf ==
    {<<"o", "b", "j">>, <<"f", "b", "x">>, <<"s", "t", "l">>, <<"p", "l", "y">>,
     <<"g", "l", "t", "f">>}

supported_formats == {<<"o", "b", "j">>, <<"f", "b", "x">>, <<"s", "t", "l">>, <<"p", "l", "y">>}

supported_formats_repr == "['obj', 'fbx', 'stl', 'ply']"

UnsupportedFormatError(format) ==
    [success |-> FALSE,
     error |-> <<"Unsupported format: ">> \o format
               \o <<". Supported: ", supported_formats_repr>>]

\* lines 287-289 (mcp_server.py 276-278): append the extension if missing
WithExtension(filepath, ext) ==
    IF ~EndsWith(filepath, ext) THEN filepath \o ext ELSE filepath

\* lines 295-302: the export statement of each format
export_op(format, filepath, selected_only) ==
    LET op == CASE format = <<"o", "b", "j">> -> "bpy.ops.export_scene.obj(filepath=r\""
                [] format = <<"f", "b", "x">> -> "bpy.ops.export_scene.fbx(filepath=r\""
                [] format = <<"s", "t", "l">> -> "bpy.ops.export_mesh.stl(filepath=r\""
                [] format = <<"p", "l", "y">> -> "bpy.ops.export_mesh.ply(filepath=r\""
    IN <<op>> \o filepath \o <<"\", use_selection=", BoolRepr(selected_only), ")">>

export_model_ops(a) ==
    << export_op(a.format, a.filepath, a.selected_only),
       <<"results.append({\"action\": \"export_model\", \"filepath\": r\"">> \o a.filepath
          \o <<"\", \"format\": \"">> \o a.format \o <<"\", \"status\": \"completed\"})">> >>

\* export_model up to the call of the executor; mk is the outcome of makedirs
export_model(args, mk) ==
    LET format == Lower(Get(args, "format", <<"o", "b", "j">>))
        selected_only == Get(args, "selected_only", FALSE)
        filepath == WithExtension(args.filepath, <<".">> \o format)
        a == [filepath |-> filepath, format |-> format, selected_only |-> selected_only]
    IN IF format \notin supported_formats
       THEN ReturnNow(UnsupportedFormatError(format))
       ELSE IF MakedirsExc(dirname(filepath), mk) # NoExc
       THEN RaiseNow(MakedirsExc(dirname(filepath), mk))
       ELSE Execute(a, create_basic_script(export_model_ops(a)), {dirname(filepath)})

export_model_response(a, result) ==
    [success |-> result.success,
     action |-> "export_model",
     filepath |-> a.filepath,
     format |-> a.format,
     blender_output |-> BlenderOutput(result),
     errors |-> Errors(result)]

----------------------------------------------------------------------------
(* mcp_server.py: the other handlers and the dispatcher *)

FilepathRequired ==
    ReturnNow(TextContent(Json([success |-> FALSE, error |-> <<"filepath is required">>])))

server_info ==
    [name |-> "Blender MCP Server", version |-> "1.0.0",
     description |-> "MCP server for 3D model generation using Blender",
     capabilities |-> <<"create_primitive_objects", "modify_meshes", "apply_materials",
                        "scene_management", "file_operations">>]

handle_get_server_info(arguments) == ReturnNow(TextContent(Json(server_info)))

handle_list_available_tools(arguments) ==
    ReturnNow(TextContent(
        [json |-> <<"create_cube", "create_sphere", "create_cylinder", "create_plane",
                    "create_cone", "save_blend_file", "export_model", "clear_scene",
                    "get_server_info", "list_available_tools">>]))

TupleTypeError ==
    [type |-> "TypeError", msg |-> <<"'int' object is not iterable">>]

handle_create_cube(arguments) ==
    LET a == handle_create_cube_bind(arguments)
    IN IF TupleRaises(a.location) THEN RaiseNow(TupleTypeError)
       ELSE Execute(a, create_basic_script(handle_create_cube_ops(a)), {})

handle_create_sphere(arguments) ==
    LET a == handle_create_sphere_bind(arguments)
    IN IF TupleRaises(a.location) THEN RaiseNow(TupleTypeError)
       ELSE Execute(a, create_basic_script(handle_create_sphere_ops(a)), {})

handle_create_cylinder(arguments) ==
    LET a == handle_create_cylinder_bind(arguments)
    IN IF TupleRaises(a.location) THEN RaiseNow(TupleTypeError)
       ELSE Execute(a, create_basic_script(handle_create_cylinder_ops(a)), {})

handle_create_plane(arguments) ==
    LET a == handle_create_plane_bind(arguments)
    IN IF TupleRaises(a.location) THEN RaiseNow(TupleTypeError)
       ELSE Execute(a, create_basic_script(handle_create_plane_ops(a)), {})

handle_create_cone(arguments) ==
    LET a == handle_create_cone_bind(arguments)
    IN IF TupleRaises(a.location) THEN RaiseNow(TupleTypeError)
       ELSE Execute(a, create_basic_script(handle_create_cone_ops(a)), {})

clear_scene_ops ==
    << <<"bpy.ops.object.select_all(action=\"SELECT\")">>,
       <<"bpy.ops.object.delete(use_global=False, confirm=False)">>,
       <<"results.append({\"action\": \"clear_scene\", \"status\": \"completed\"})">> >>

handle_clear_scene(arguments) ==
    Execute(EmptyDict, create_basic_script(clear_scene_ops), {})

handle_clear_scene_response(a, result) ==
    TextContent(Json(
        [success |-> result.success,
         action |-> "clear_scene",
         blender_output |-> BlenderOutput(result),
         errors |-> Errors(result)]))

save_blend_file_ops(a) ==
    << <<"bpy.ops.wm.save_as_mainfile(filepath=r\"">> \o a.filepath \o <<"\")">>,
       <<"results.append({\"action\": \"save_blend_file\", \"filepath\": r\"">> \o a.filepath
          \o <<"\", \"status\": \"completed\"})">> >>

handle_save_blend_file(arguments, mk) ==
    LET given == Get(arguments, "filepath", <<>>)
        filepath == WithExtension(given, <<".", "b", "l", "e", "n", "d">>)
        a == [filepath |-> filepath]
    IN IF given = <<>>
       THEN FilepathRequired
       ELSE IF MakedirsExc(dirname(filepath), mk) # NoExc
       THEN RaiseNow(MakedirsExc(dirname(filepath), mk))
       ELSE Execute(a, create_basic_script(save_blend_file_ops(a)), {dirname(filepath)})

handle_save_blend_file_response(a, result) ==
    TextContent(Json(
        [success |-> result.success,
         action |-> "save_blend_file",
         filepath |-> a.filepath,
         blender_output |-> BlenderOutput(result),
         errors |-> Errors(result)]))

handler_supported_formats ==
    {<<"o", "b", "j">>, <<"f", "b", "x">>, <<"s", "t", "l">>, <<"p", "l", "y">>}

handle_export_model(arguments, mk) ==
    LET given == Get(arguments, "filepath", <<>>)
        format == Lower(Get(arguments, "format", <<"o", "b", "j">>))
        selected_only == Get(arguments, "selected_only", FALSE)
        filepath == WithExtension(given, <<".">> \o format)
        a == [filepath |-> filepath, format |-> format, selected_only |-> selected_only]
    IN IF given = <<>>
       THEN FilepathRequired
       ELSE IF format \notin handler_supported_formats
       THEN ReturnNow(TextContent(Json(UnsupportedFormatError(format))))
       ELSE IF MakedirsExc(dirname(filepath), mk) # NoExc
       THEN RaiseNow(MakedirsExc(dirname(filepath), mk))
       ELSE Execute(a, create_basic_script(export_model_ops(a)), {dirname(filepath)})

handle_export_model_response(a, result) ==
    TextContent(Json(
        [success |-> result.success,
         action |-> "export_model",
         filepath |-> a.filepath,
         format |-> a.format,
         blender_output |-> BlenderOutput(result),
         errors |-> Errors(result)]))

----------------------------------------------------------------------------
(* server.py: save_blend_file *)

\* save_blend_file up to the call of the executor, lines 243-255; mk is the
\* outcome of makedirs
save_blend_file(args, mk) ==
    LET filepath == WithExtension(args.filepath, <<".", "b", "l", "e", "n", "d">>)
        a == [filepath |-> filepath]
    IN IF MakedirsExc(dirname(filepath), mk) # NoExc
       THEN RaiseNow(MakedirsExc(dirname(filepath), mk))
       ELSE Execute(a, create_basic_script(save_blend_file_ops(a)), {dirname(filepath)})

save_blend_file_response(a, result) ==
    [success |-> result.success,
     action |-> "save_blend_file",
     filepath |-> a.filepath,
     blender_output |-> BlenderOutput(result),
     errors |-> Errors(result)]

\* the keys of the handlers dict of call_tool
handlers ==
    {"get_server_info", "list_available_tools", "create_cube", "create_sphere",
     "create_cylinder", "create_plane", "create_cone", "clear_scene",
     "save_blend_file", "export_model"}

\* the names of the Tool schemas list_tools publishes, lines 316-520
list_tools ==
    <<"get_server_info", "list_available_tools", "create_cube", "create_sphere",
      "create_cylinder", "create_plane", "create_cone", "clear_scene",
      "save_blend_file", "export_model">>

\* handler(arguments) up to the call of the executor
RunHandler(name, arguments, mk) ==
    CASE name = "get_server_info" -> handle_get_server_info(arguments)
      [] name = "list_available_tools" -> handle_list_available_tools(arguments)
      [] name = "create_cube" -> handle_create_cube(arguments)
      [] name = "create_sphere" -> handle_create_sphere(arguments)
      [] name = "create_cylinder" -> handle_create_cylinder(arguments)
      [] name = "create_plane" -> handle_create_plane(arguments)
      [] name = "create_cone" -> handle_create_cone(arguments)
      [] name = "clear_scene" -> handle_clear_scene(arguments)
      [] name = "save_blend_file" -> handle_save_blend_file(arguments, mk)
      [] name = "export_model" -> handle_export_model(arguments, mk)

\* the handler's return value once the executor has returned
HandlerResponse(name, a, result) ==
    CASE name = "create_cube" -> handle_create_cube_response(a, result)
      [] name = "create_sphere" -> handle_create_sphere_response(a, result)
      [] name = "create_cylinder" -> handle_create_cylinder_response(a, result)
      [] name = "create_plane" -> handle_create_plane_response(a, result)
      [] name = "create_cone" -> handle_create_cone_response(a, result)
      [] name = "clear_scene" -> handle_clear_scene_response(a, result)
      [] name = "save_blend_file" -> handle_save_blend_file_response(a, result)
      [] name = "export_model" -> handle_export_model_response(a, result)

\* mutant: only OSError and its subclasses are caught
CallToolHandlers_OSErrorOnly(e) ==
    IF e.type \in {"FileNotFoundError", "PermissionError", "OSError"}
    THEN ReturnNow(TextContent(Json([success |-> FALSE, error |-> e.msg])))
    ELSE RaiseNow(e)

\* "except Exception as e" of call_tool, lines 545-550
CallToolHandlers(e) ==
    IF e.type \in ExceptionTypes
    THEN ReturnNow(TextContent(Json([success |-> FALSE, error |-> e.msg])))
    ELSE RaiseNow(e)

\* mutant: handlers[name] instead of handlers.get(name)
call_tool_Subscript(name, arguments, mk) ==
    IF name \notin handlers
    THEN RaiseNow([type |-> "KeyError", msg |-> <<"'", name, "'">>])
    ELSE LET h == RunHandler(name, arguments, mk)
         IN IF h.kind = "raise" THEN CallToolHandlers(h.exc) ELSE h

\* call_tool up to the call of the executor, lines 539-550
call_tool(name, arguments, mk) ==
    IF name \notin handlers
    THEN ReturnNow(TextContent(Plain(<<"Unknown tool: ", name>>)))
    ELSE LET h == RunHandler(name, arguments, mk)
         IN IF h.kind = "raise" THEN CallToolHandlers(h.exc) ELSE h

----------------------------------------------------------------------------
(* subdivide_smooth.py: remesh_object, decimate_object *)

\* mutant: a mode missing from the allow-list
valid_modes_NoVoxel == {"BLOCKS", "SMOOTH", "SHARP"}

valid_modes == {"BLOCKS", "SMOOTH", "SHARP", "VOXEL"}

valid_types == {"COLLAPSE", "UNSUBDIV", "DISSOLVE"}

remesh_object_bind(args) ==
    [object_name |-> args.object_name,
     octree_depth |-> Get(args, "octree_depth", "4"),
     scale |-> Get(args, "scale", "0.99"),
     mode |-> Get(args, "mode", "BLOCKS")]

remesh_object_ops(a) ==
    << <<"obj = bpy.data.objects[\"", a.object_name, "\"]">>,
       <<"bpy.context.view_layer.objects.active = obj">>,
       <<"modifier = obj.modifiers.new(name=\"Remesh\", type=\"REMESH\")">>,
       <<"modifier.mode = \"", a.mode, "\"">>,
       <<"modifier.octree_depth = ", a.octree_depth>>,
       <<"modifier.scale = ", a.scale>>,
       <<"bpy.ops.object.modifier_apply(modifier=\"Remesh\")">>,
       <<"results.append({\"action\": \"remesh_object\", \"object\": \"", a.object_name,
         "\", \"mode\": \"", a.mode, "\", \"octree_depth\": ", a.octree_depth,
         ", \"scale\": ", a.scale, "})">> >>

remesh_object(args) ==
    LET a == remesh_object_bind(args)
    IN IF a.mode \notin valid_modes
       THEN ReturnNow([success |-> FALSE,
                       error |-> <<"Invalid remesh mode: ", a.mode, ". Valid modes: ",
                                   "['BLOCKS', 'SMOOTH', 'SHARP', 'VOXEL']">>])
       ELSE Execute(a, create_basic_script(remesh_object_ops(a)), {})

remesh_object_response(a, result) ==
    [success |-> result.success,
     action |-> "remesh_object",
     object_name |-> a.object_name,
     parameters |-> [mode |-> a.mode, octree_depth |-> a.octree_depth, scale |-> a.scale],
     blender_output |-> BlenderOutput(result),
     errors |-> Errors(result)]

decimate_object_bind(args) ==
    [object_name |-> args.object_name,
     ratio |-> Get(args, "ratio", "0.5"),
     decimate_type |-> Get(args, "decimate_type", "COLLAPSE")]

decimate_object_ops(a) ==
    << <<"obj = bpy.data.objects[\"", a.object_name, "\"]">>,
       <<"bpy.context.view_layer.objects.active = obj">>,
       <<"modifier = obj.modifiers.new(name=\"Decimate\", type=\"DECIMATE\")">>,
       <<"modifier.decimate_type = \"", a.decimate_type, "\"">>,
       <<"modifier.ratio = ", a.ratio>>,
       <<"bpy.ops.object.modifier_apply(modifier=\"Decimate\")">>,
       <<"results.append({\"action\": \"decimate_object\", \"object\": \"", a.object_name,
         "\", \"type\": \"", a.decimate_type, "\", \"ratio\": ", a.ratio, "})">> >>

decimate_object(args) ==
    LET a == decimate_object_bind(args)
    IN IF a.decimate_type \notin valid_types
       THEN ReturnNow([success |-> FALSE,
                       error |-> <<"Invalid decimate type: ", a.decimate_type,
                                   ". Valid types: ",
                                   "['COLLAPSE', 'UNSUBDIV', 'DISSOLVE']">>])
       ELSE Execute(a, create_basic_script(decimate_object_ops(a)), {})

decimate_object_response(a, result) ==
    [success |-> result.success,
     action |-> "decimate_object",
     object_name |-> a.object_name,
     parameters |-> [type |-> a.decimate_type, ratio |-> a.ratio],
     blender_output |-> BlenderOutput(result),
     errors |-> Errors(result)]

----------------------------------------------------------------------------
(* boolean_operations.py: join_objects *)

\* ', '.join([f'bpy.data.objects["{name}"]' for name in object_names])
RECURSIVE objects_list(_)
objects_list(object_names) ==
    IF object_names = <<>> THEN <<>>
    ELSE IF Len(object_names) = 1
    THEN <<"bpy.data.objects[\"", object_names[1], "\"]">>
    ELSE <<"bpy.data.objects[\"", object_names[1], "\"]", ", ">>
         \o objects_list(Tail(object_names))

\* f"{object_names}" of a list of str
RECURSIVE StrListItems(_)
StrListItems(l) ==
    IF l = <<>> THEN <<>>
    ELSE IF Len(l) = 1 THEN <<"'", l[1], "'">>
    ELSE <<"'", l[1], "'", ", ">> \o StrListItems(Tail(l))

StrListRepr(l) == <<"[">> \o StrListItems(l) \o <<"]">>

join_objects_bind(args) ==
    [object_names |-> args.object_names,
     result_name |-> Get(args, "result_name", "JoinedObject")]

join_objects_ops(a) ==
    << <<"objects_to_join = [">> \o objects_list(a.object_names) \o <<"]">>,
       <<"bpy.ops.object.select_all(action=\"DESELECT\")">>,
       <<"for obj in objects_to_join:">>,
       <<"    obj.select_set(True)">>,
       <<"bpy.context.view_layer.objects.active = objects_to_join[0]">>,
       <<"bpy.ops.object.join()">>,
       <<"bpy.context.active_object.name = \"", a.result_name, "\"">>,
       <<"results.append({\"action\": \"join_objects\", \"input_objects\": ">>
          \o StrListRepr(a.object_names)
          \o <<", \"result_object\": \"", a.result_name, "\"})">> >>

\* mutant: the length check is off by one
join_objects_AtMostTwo(args) ==
    LET a == join_objects_bind(args)
    IN IF Len(a.object_names) <= 2
       THEN ReturnNow([success |-> FALSE,
                       error |-> <<"At least 2 objects required for joining">>])
       ELSE Execute(a, create_basic_script(join_objects_ops(a)), {})

join_objects(args) ==
    LET a == join_objects_bind(args)
    IN IF Len(a.object_names) < 2
       THEN ReturnNow([success |-> FALSE,
                       error |-> <<"At least 2 objects required for joining">>])
       ELSE Execute(a, create_basic_script(join_objects_ops(a)), {})

join_objects_response(a, result) ==
    [success |-> result.success,
     action |-> "join_objects",
     input_objects |-> a.object_names,
     result_object |-> a.result_name,
     blender_output |-> BlenderOutput(result),
     errors |-> Errors(result)]

----------------------------------------------------------------------------
(* Calls in flight *)

IdleCall ==
    [pc |-> "idle", layer |-> "none", tool |-> "none",
     args |-> EmptyDict,      \* the arguments as the caller passed them
     locals |-> EmptyDict,    \* the function's local variables
     script |-> <<>>,         \* the script handed to the executor
     blend_file |-> None,
     launched |-> <<>>,       \* the subprocesses started by this call
     proc |-> EmptyDict,      \* the CompletedProcess of subprocess.run
     result |-> EmptyDict,    \* what execute_blender_script returned
     response |-> EmptyDict,  \* what the entry point returned
     exc |-> NoExc,           \* the exception that left the entry point
     mkdirs |-> {},           \* the directories os.makedirs was asked to create
     toolExc |-> NoExc,       \* the exception raised in the tool's own code
     execExc |-> NoExc,       \* the exception raised inside the executor's try
     depth |-> 0,             \* frames of a server.py wrapper on the stack
     replaced |-> "nothing"]  \* what open(script_file, "w") found and truncated

\* a call is inside execute_blender_script
InExecute(c) == call[c].pc \in {"write", "launch", "wait", "remove"}

InFlight(c) == call[c].pc # "idle"

\* the server is single-threaded and synchronous: a call starts when no
\* other call is in flight
MayStart(c) == \A d \in Callers : call[d].pc = "idle"

\* the return statement of each server.py tool
ServerResponse(name, a, result) ==
    CASE name = "create_cube" -> create_cube_response(a, result)
      [] name = "create_sphere" -> create_sphere_response(a, result)
      [] name = "create_cylinder" -> create_cylinder_response(a, result)
      [] name = "create_plane" -> create_plane_response(a, result)
      [] name = "create_cone" -> create_cone_response(a, result)
      [] name = "export_model" -> export_model_response(a, result)
      [] name = "save_blend_file" -> save_blend_file_response(a, result)

\* the return statement of each catalog function
CatalogResponse(name, a, result) ==
    CASE name = "remesh_object" -> remesh_object_response(a, result)
      [] name = "decimate_object" -> decimate_object_response(a, result)
      [] name = "join_objects" -> join_objects_response(a, result)

\* what the entry point of each layer returns for an executor result
RespondWith(cl, result) ==
    CASE cl.layer = "executor" -> result
      [] cl.layer = "server" -> ServerResponse(cl.tool, cl.locals, result)
      [] cl.layer = "mcp" -> HandlerResponse(cl.tool, cl.locals, result)
      [] cl.layer = "catalog" -> CatalogResponse(cl.tool, cl.locals, result)

\* the executor returned `result`: the tool builds its response and returns
Returned(c, result) ==
    call' = [call EXCEPT ![c].pc = "returned",
                         ![c].result = result,
                         ![c].response = RespondWith(call[c], result)]

\* an exception `e` was raised inside the try block of execute_blender_script
RaisedInExecute(c, e) ==
    LET h == ExecuteHandlers(e) IN
    IF h.exc = NoExc
    THEN call' = [call EXCEPT ![c].pc = "returned",
                              ![c].execExc = e,
                              ![c].result = h.ret,
                              ![c].response = RespondWith(call[c], h.ret)]
    ELSE call' = [call EXCEPT ![c].pc = "raised", ![c].execExc = e, ![c].exc = h.exc]

----------------------------------------------------------------------------
(* execute_blender_script, step by step *)

\* what is at script_file when the call opens it: nothing, a file with the
\* text the call is about to write, or a file with another content
Found(c) ==
    IF scriptFile = NoFile THEN "nothing"
    ELSE IF scriptFile = call[c].script THEN "same script"
    ELSE "another script"

\* mutant: a script file that exists already is left as it is
ExecWrite_KeepExisting(c) ==
    /\ UNCHANGED <<boot, run>>
    /\ call[c].pc = "write"
    /\ UNCHANGED <<tempDirExists, madeDirs>>
    /\ IF ~tempDirExists
       THEN /\ RaisedInExecute(c, [type |-> "FileNotFoundError",
                                   msg |-> <<"No such file or directory: temp_script.py">>])
            /\ UNCHANGED scriptFile
       ELSE \E o \in WriteOutcomes :
            CASE o = "ok" ->
                   /\ scriptFile' = IF scriptFile # NoFile THEN scriptFile ELSE call[c].script
                   /\ call' = [call EXCEPT ![c].pc = "launch",
                                           ![c].replaced = Found(c)]
              [] o = "open_denied" ->
                   /\ UNCHANGED scriptFile
                   /\ RaisedInExecute(c, [type |-> "PermissionError",
                                          msg |-> <<"Permission denied: temp_script.py">>])
              [] o = "write_failed" ->
                   /\ scriptFile' = Truncated
                   /\ RaisedInExecute(c, [type |-> "OSError",
                                          msg |-> <<"No space left on device">>])

\* lines 63-65: stage the script
ExecWrite(c) ==
    /\ UNCHANGED <<boot, run>>
    /\ call[c].pc = "write"
    /\ UNCHANGED <<tempDirExists, madeDirs>>
    /\ IF ~tempDirExists
       THEN /\ RaisedInExecute(c, [type |-> "FileNotFoundError",
                                   msg |-> <<"No such file or directory: temp_script.py">>])
            /\ UNCHANGED scriptFile
       ELSE \E o \in WriteOutcomes :
            CASE o = "ok" ->
                   /\ scriptFile' = call[c].script
                   /\ call' = [call EXCEPT ![c].pc = "launch",
                                           ![c].replaced = Found(c)]
              [] o = "open_denied" ->
                   /\ UNCHANGED scriptFile
                   /\ RaisedInExecute(c, [type |-> "PermissionError",
                                          msg |-> <<"Permission denied: temp_script.py">>])
              [] o = "write_failed" ->
                   /\ scriptFile' = Truncated
                   /\ RaisedInExecute(c, [type |-> "OSError",
                                          msg |-> <<"No space left on device">>])

\* lines 68-80: build the command and start the process
ExecLaunch(c) ==
    /\ UNCHANGED <<boot, run>>
    /\ call[c].pc = "launch"
    /\ UNCHANGED <<tempDirExists, scriptFile, madeDirs>>
    /\ \E o \in LaunchOutcomes :
       CASE o = "started" ->
              call' = [call EXCEPT
                         ![c].pc = "wait",
                         ![c].launched = Append(@, [cmd |-> BuildCmd(call[c].blend_file),
                                                    content |-> scriptFile])]
         [] o = "exe_missing" ->
              RaisedInExecute(c, [type |-> "FileNotFoundError",
                                  msg |-> <<"No such file or directory: blender">>])
         [] o = "exe_denied" ->
              RaisedInExecute(c, [type |-> "PermissionError",
                                  msg |-> <<"Permission denied: blender">>])

\* mutant: no timeout is passed, a process that never exits is waited for
\* without end
ExecWait_NoTimeout(c) ==
    /\ UNCHANGED <<boot, run>>
    /\ call[c].pc = "wait"
    /\ UNCHANGED <<tempDirExists, scriptFile, madeDirs>>
    /\ \/ call' = [call EXCEPT ![c].pc = "hung"]
       \/ \E rc \in ReturnCodes, out \in Stdouts, err \in Stderrs :
            call' = [call EXCEPT
                       ![c].pc = "remove",
                       ![c].proc = [returncode |-> rc, stdout |-> out, stderr |-> err]]

\* line 80: the blocking wait; the process exits or the 30 s timeout fires
ExecWait(c) ==
    /\ UNCHANGED <<boot, run>>
    /\ call[c].pc = "wait"
    /\ UNCHANGED <<tempDirExists, scriptFile, madeDirs>>
    /\ \/ RaisedInExecute(c, [type |-> "TimeoutExpired",
                              msg |-> <<"Command timed out after 30 seconds">>])
       \/ \E rc \in ReturnCodes, out \in Stdouts, err \in Stderrs :
            call' = [call EXCEPT
                       ![c].pc = "remove",
                       ![c].proc = [returncode |-> rc, stdout |-> out, stderr |-> err]]

\* mutant: a non-zero exit starts the process again
ExecRemove_RetryOnFailure(c) ==
    /\ UNCHANGED <<boot, run>>
    /\ call[c].pc = "remove"
    /\ UNCHANGED <<tempDirExists, madeDirs>>
    /\ IF call[c].proc.returncode # 0
       THEN /\ UNCHANGED scriptFile
            /\ call' = [call EXCEPT ![c].pc = "launch", ![c].proc = EmptyDict]
       ELSE /\ scriptFile' = NoFile
            /\ Returned(c, NormalResult(call[c].proc))

\* mutant: the result is returned without removing the staged script
ExecRemove_KeepsFile(c) ==
    /\ UNCHANGED <<boot, run>>
    /\ call[c].pc = "remove"
    /\ UNCHANGED <<tempDirExists, madeDirs, scriptFile>>
    /\ Returned(c, NormalResult(call[c].proc))

\* lines 83-90: remove the staged script and return the result
ExecRemove(c) ==
    /\ UNCHANGED <<boot, run>>
    /\ call[c].pc = "remove"
    /\ UNCHANGED <<tempDirExists, madeDirs>>
    /\ IF scriptFile = NoFile
       THEN /\ UNCHANGED scriptFile
            /\ RaisedInExecute(c, [type |-> "FileNotFoundError",
                                   msg |-> <<"No such file or directory: temp_script.py">>])
       ELSE \E o \in RemoveOutcomes :
            CASE o = "ok" ->
                   /\ scriptFile' = NoFile
                   /\ Returned(c, NormalResult(call[c].proc))
              [] o = "denied" ->
                   /\ UNCHANGED scriptFile
                   /\ RaisedInExecute(c, [type |-> "PermissionError",
                                          msg |-> <<"Permission denied: temp_script.py">>])

\* the caller takes the response (or the exception); the call is over
Return(c) ==
    /\ UNCHANGED <<boot, run>>
    /\ call[c].pc \in {"returned", "raised"}
    /\ call' = [call EXCEPT ![c] = IdleCall]
    /\ UNCHANGED <<tempDirExists, scriptFile, madeDirs>>

\* most calls of cleanup() in one run
MaxCleanups == 2

\* the exception shutil.rmtree(self.temp_dir) raises, or NoExc: a directory
\* that exists is removed with all it holds, one that does not is an error
RmtreeExc(exists) ==
    IF ~exists
    THEN [type |-> "FileNotFoundError", msg |-> <<"No such file or directory: ", temp_dir>>]
    ELSE NoExc

\* mutant: cleanup without its try / except
CleanupHandlers_None(e) == e

\* "except Exception as e" of cleanup, lines 155-156: the exception is
\* logged as a warning; what is returned here is what leaves cleanup()
CleanupHandlers(e) == IF e.type \in ExceptionTypes THEN NoExc ELSE e

\* BlenderManager.cleanup, lines 150-156
cleanup ==
    /\ \A c \in Callers : ~InFlight(c)
    /\ boot.cleanup.calls < MaxCleanups
    /\ LET e == RmtreeExc(tempDirExists)
       IN /\ tempDirExists' = FALSE
          /\ scriptFile' = NoFile
          /\ boot' = [boot EXCEPT
                        !.cleanup = [calls |-> @.calls + 1,
                                     removed |-> @.removed \/ e = NoExc,
                                     exc |-> CleanupHandlers(e)],
                        !.err = IF e # NoExc /\ CleanupHandlers(e) = NoExc
                                THEN Append(@, <<"Failed to clean up temp directory: ">> \o e.msg)
                                ELSE @]
    /\ UNCHANGED <<madeDirs, call, run>>

----------------------------------------------------------------------------
(* Entry points *)

\* scripts and blend files a direct caller of the executor passes
DirectScripts == { <<<<"print(1)">>>>, create_basic_script(<<>>) }
BlendFiles == {None, "", "scene.blend"}

\* a direct call of BlenderManager.execute_blender_script(script, blend_file)
ExecuteDirect(c) ==
    /\ UNCHANGED <<boot, run>>
    /\ MayStart(c)
    /\ \E s \in DirectScripts, b \in BlendFiles :
         call' = [call EXCEPT ![c] = [IdleCall EXCEPT
                    !.pc = "write", !.layer = "executor",
                    !.tool = "execute_blender_script",
                    !.args = [script |-> s, blend_file |-> b],
                    !.script = s, !.blend_file = b]]
    /\ UNCHANGED <<tempDirExists, scriptFile, madeDirs>>

\* a call of execute_blender_script from a thread of its own: it does not
\* wait for the calls in flight
ExecuteOverlapping(c) ==
    /\ call[c].pc = "idle"
    /\ \E s \in DirectScripts :
         call' = [call EXCEPT ![c] = [IdleCall EXCEPT
                    !.pc = "write", !.layer = "executor",
                    !.tool = "execute_blender_script",
                    !.args = [script |-> s, blend_file |-> None],
                    !.script = s]]
    /\ UNCHANGED <<tempDirExists, scriptFile, madeDirs, boot, run>>

\* mutant: a script file left on disk is run again instead of the new script
StartCall_ReusesStaged(c, layer, tool, args, o, texc) ==
    LET started == [IdleCall EXCEPT !.layer = layer, !.tool = tool, !.args = args,
                                    !.toolExc = texc]
    IN CASE o.kind = "return" ->
              /\ call' = [call EXCEPT ![c] = [started EXCEPT !.pc = "returned",
                                                              !.response = o.response]]
              /\ UNCHANGED madeDirs
         [] o.kind = "raise" ->
              /\ call' = [call EXCEPT ![c] = [started EXCEPT !.pc = "raised",
                                                              !.exc = o.exc]]
              /\ UNCHANGED madeDirs
         [] o.kind = "execute" ->
              /\ call' = [call EXCEPT ![c] = [started EXCEPT !.pc = "write",
                                                              !.locals = o.locals,
                                                              !.script = IF scriptFile # NoFile THEN scriptFile
                                                                        ELSE o.script,
                                                              !.mkdirs = o.mkdirs]]
              /\ madeDirs' = madeDirs \cup o.mkdirs

\* an entry point was called with `args`; `o` is what its code does up to
\* the call of the executor
StartCall(c, layer, tool, args, o, texc) ==
    LET started == [IdleCall EXCEPT !.layer = layer, !.tool = tool, !.args = args,
                                    !.toolExc = texc]
    IN CASE o.kind = "return" ->
              /\ call' = [call EXCEPT ![c] = [started EXCEPT !.pc = "returned",
                                                              !.response = o.response]]
              /\ UNCHANGED madeDirs
         [] o.kind = "raise" ->
              /\ call' = [call EXCEPT ![c] = [started EXCEPT !.pc = "raised",
                                                              !.exc = o.exc]]
              /\ UNCHANGED madeDirs
         [] o.kind = "execute" ->
              /\ call' = [call EXCEPT ![c] = [started EXCEPT !.pc = "write",
                                                              !.locals = o.locals,
                                                              !.script = o.script,
                                                              !.mkdirs = o.mkdirs]]
              /\ madeDirs' = madeDirs \cup o.mkdirs

----------------------------------------------------------------------------
(* Inputs *)

\* longest list of names passed to join_objects
MaxJoinNames == 3

\* the keyword arguments a caller passes: none, one of them, or all
ArgDicts(full) ==
    {[k \in S |-> full[k]] :
        S \in {T \in SUBSET DOMAIN full : Cardinality(T) <= 1 \/ T = DOMAIN full}}

\* d extended / overridden by e
Merge(d, e) == [k \in DOMAIN d \cup DOMAIN e |-> IF k \in DOMAIN e THEN e[k] ELSE d[k]]

Filepaths ==
    {<<"m">>, <<"d", "/", "m">>, <<"d", "/", "m", ".", "o", "b", "j">>}

Formats ==
    {<<"o", "b", "j">>, <<"O", "B", "J">>, <<"f", "b", "x">>, <<"s", "t", "l">>,
     <<"p", "l", "y">>, <<"g", "l", "t", "f">>, <<"S", "t", "L">>, <<>>}

ExportOptions ==
    {EmptyDict, [selected_only |-> TRUE]}
    \cup {[format |-> f] : f \in Formats}
    \cup {[format |-> <<"s", "t", "l">>, selected_only |-> TRUE]}

ServerExportArgs ==
    {Merge([filepath |-> p], o) : p \in Filepaths \cup {<<>>}, o \in ExportOptions}

McpExportArgs ==
    ExportOptions \cup {Merge([filepath |-> p], o) : p \in Filepaths \cup {<<>>}, o \in ExportOptions}

McpSaveArgs ==
    {EmptyDict} \cup {[filepath |-> p] : p \in Filepaths \cup {<<>>, <<"d", "/", "s", ".", "b", "l", "e", "n", "d">>}}

McpPrimitiveArgs(full) == ArgDicts(full) \cup {[location |-> Scalar("5")]}

McpArguments(name) ==
    CASE name = "create_cube" ->
           McpPrimitiveArgs([size |-> "3.5", location |-> List3("1", "2", "3"), name |-> "A"])
           \cup {[size |-> "2.0", location |-> List3("0", "0", "0"), name |-> "Cube"]}
      [] name = "create_sphere" ->
           McpPrimitiveArgs([radius |-> "3.5", location |-> List3("1", "2", "3"), name |-> "A"])
      [] name = "create_cylinder" ->
           McpPrimitiveArgs([radius |-> "3.5", depth |-> "0.5",
                             location |-> List3("1", "2", "3"), name |-> "A"])
      [] name = "create_plane" ->
           McpPrimitiveArgs([size |-> "3.5", location |-> List3("1", "2", "3"), name |-> "A"])
      [] name = "create_cone" ->
           McpPrimitiveArgs([radius1 |-> "3.5", radius2 |-> "0.25", depth |-> "0.5",
                             location |-> List3("1", "2", "3"), name |-> "A"])
      [] name = "save_blend_file" -> McpSaveArgs
      [] name = "export_model" -> McpExportArgs
      [] OTHER -> {EmptyDict, [name |-> "A"]}

UnknownTools == {"create_torus", "remesh_object", ""}

Modes == valid_modes \cup {"blocks", "QUAD", ""}

DecimateTypes == valid_types \cup {"collapse", "PLANAR"}

ObjectNames == {"A", "B"}

RECURSIVE NameLists(_)
NameLists(n) ==
    IF n = 0 THEN {<<>>}
    ELSE NameLists(n - 1)
         \cup {Append(l, x) : l \in {m \in NameLists(n - 1) : Len(m) = n - 1},
                              x \in ObjectNames}

----------------------------------------------------------------------------
(* server.py: the registry *)

\* the functions server.py registers with @mcp.tool(), lines 31-516
registered_tools ==
    {"get_server_info", "list_available_tools", "create_cube", "create_sphere",
     "create_cylinder", "create_plane", "create_cone", "clear_scene",
     "save_blend_file", "export_model",
     "create_mesh_from_vertices", "extrude_face", "inset_faces", "bevel_edges",
     "loop_cut", "scale_object", "rotate_object", "move_object",
     "boolean_union", "boolean_difference", "boolean_intersection",
     "duplicate_object", "join_objects", "separate_object_by_loose_parts",
     "subdivide_surface", "smooth_object", "remesh_object", "decimate_object",
     "add_edge_split", "triangulate_mesh",
     "create_material", "apply_material_to_object", "create_glass_material",
     "create_metal_material", "create_emission_material", "add_noise_texture",
     "add_uv_mapping",
     "add_array_modifier", "add_mirror_modifier", "add_solidify_modifier",
     "add_bevel_modifier", "add_screw_modifier", "add_wave_modifier",
     "add_displacement_modifier", "apply_modifier"}

\* the return value of list_available_tools, lines 50-60
list_available_tools ==
    <<"create_cube", "create_sphere", "create_cylinder", "create_plane",
      "create_cone", "save_blend_file", "export_model", "clear_scene",
      "set_render_settings">>

\* the tools of lines 321-516: each body is "return <its own name>(...)"
advanced_tools == registered_tools \ handlers

\* what a global name of server.py is bound to once the module is loaded:
\* the star-imports of lines 14-18 bind the catalog functions, and every
\* later "def" of the same name rebinds it to the function of server.py
server_globals(name) == IF name \in registered_tools THEN "server" ELSE "catalog"

\* frames the interpreter allows (sys.getrecursionlimit()), scaled down
RecursionLimit == 3

RecursionError ==
    [type |-> "RecursionError", msg |-> <<"maximum recursion depth exceeded">>]

----------------------------------------------------------------------------
(* Entry points: server.py tools *)

\* names and arguments of the advanced tools called
AdvancedCalls ==
    {[tool |-> "extrude_face", args |-> [object_name |-> "A", face_index |-> "0"]],
     [tool |-> "join_objects", args |-> [object_names |-> <<"A", "B">>]],
     [tool |-> "remesh_object", args |-> [object_name |-> "A", mode |-> "VOXEL"]],
     [tool |-> "apply_modifier", args |-> [object_name |-> "A", modifier_name |-> "M"]]}

\* an advanced tool of server.py is called: its frame is entered
AdvancedTool(c) ==
    /\ UNCHANGED <<boot, run>>
    /\ MayStart(c)
    /\ UNCHANGED <<tempDirExists, scriptFile, madeDirs>>
    /\ \E a \in AdvancedCalls :
         /\ a.tool \in advanced_tools
         /\ call' = [call EXCEPT ![c] = [IdleCall EXCEPT
                        !.pc = "wrapper", !.layer = "server", !.tool = a.tool,
                        !.args = a.args, !.depth = 1]]

\* the body of the wrapper: "return <name>(...)" calls what the global
\* name is bound to
WrapperBody(c) ==
    /\ UNCHANGED <<boot, run>>
    /\ call[c].pc = "wrapper"
    /\ UNCHANGED <<tempDirExists, scriptFile, madeDirs>>
    /\ IF server_globals(call[c].tool) = "server"
       THEN IF call[c].depth < RecursionLimit
            THEN call' = [call EXCEPT ![c].depth = @ + 1]
            ELSE call' = [call EXCEPT ![c].pc = "raised", ![c].exc = RecursionError,
                                      ![c].toolExc = RecursionError]
       ELSE call' = [call EXCEPT ![c].pc = "catalog"]

ListAvailableTools(c) ==
    /\ UNCHANGED <<boot, run>>
    /\ MayStart(c)
    /\ UNCHANGED <<tempDirExists, scriptFile>>
    /\ StartCall(c, "server", "list_available_tools", EmptyDict,
                 ReturnNow(list_available_tools), NoExc)

CreateCube(c) ==
    /\ UNCHANGED <<boot, run>>
    /\ MayStart(c)
    /\ UNCHANGED <<tempDirExists, scriptFile>>
    /\ \E args \in ArgDicts([size |-> "3.5", location |-> Tuple3("1", "2", "3"),
                             name |-> "A"])
                   \cup {[size |-> "2.0", location |-> List3("0", "0", "0"),
                          name |-> "Cube"]} :
         LET a == create_cube_bind(args)
         IN StartCall(c, "server", "create_cube", args,
                      Execute(a, create_basic_script(create_cube_ops(a)), {}), NoExc)

CreateSphere(c) ==
    /\ UNCHANGED <<boot, run>>
    /\ MayStart(c)
    /\ UNCHANGED <<tempDirExists, scriptFile>>
    /\ \E args \in ArgDicts([radius |-> "3.5", location |-> Tuple3("1", "2", "3"),
                             name |-> "A"]) :
         LET a == create_sphere_bind(args)
         IN StartCall(c, "server", "create_sphere", args,
                      Execute(a, create_basic_script(create_sphere_ops(a)), {}), NoExc)

CreateCylinder(c) ==
    /\ UNCHANGED <<boot, run>>
    /\ MayStart(c)
    /\ UNCHANGED <<tempDirExists, scriptFile>>
    /\ \E args \in ArgDicts([radius |-> "3.5", depth |-> "0.5",
                             location |-> Tuple3("1", "2", "3"), name |-> "A"]) :
         LET a == create_cylinder_bind(args)
         IN StartCall(c, "server", "create_cylinder", args,
                      Execute(a, create_basic_script(create_cylinder_ops(a)), {}), NoExc)

CreatePlane(c) ==
    /\ UNCHANGED <<boot, run>>
    /\ MayStart(c)
    /\ UNCHANGED <<tempDirExists, scriptFile>>
    /\ \E args \in ArgDicts([size |-> "3.5", location |-> Tuple3("1", "2", "3"),
                             name |-> "A"]) :
         LET a == create_plane_bind(args)
         IN StartCall(c, "server", "create_plane", args,
                      Execute(a, create_basic_script(create_plane_ops(a)), {}), NoExc)

CreateCone(c) ==
    /\ UNCHANGED <<boot, run>>
    /\ MayStart(c)
    /\ UNCHANGED <<tempDirExists, scriptFile>>
    /\ \E args \in ArgDicts([radius1 |-> "3.5", radius2 |-> "0.25", depth |-> "0.5",
                             location |-> Tuple3("1", "2", "3"), name |-> "A"]) :
         LET a == create_cone_bind(args)
         IN StartCall(c, "server", "create_cone", args,
                      Execute(a, create_basic_script(create_cone_ops(a)), {}), NoExc)

ExportModel(c) ==
    /\ UNCHANGED <<boot, run>>
    /\ MayStart(c)
    /\ UNCHANGED <<tempDirExists, scriptFile>>
    /\ \E args \in ServerExportArgs, mk \in MakedirsOutcomes :
         LET o == export_model(args, mk)
         IN StartCall(c, "server", "export_model", args, o,
                      IF o.kind = "raise" THEN o.exc ELSE NoExc)

SaveBlendFile(c) ==
    /\ UNCHANGED <<boot, run>>
    /\ MayStart(c)
    /\ UNCHANGED <<tempDirExists, scriptFile>>
    /\ \E args \in {a \in McpSaveArgs : "filepath" \in DOMAIN a}, mk \in MakedirsOutcomes :
         LET o == save_blend_file(args, mk)
         IN StartCall(c, "server", "save_blend_file", args, o,
                      IF o.kind = "raise" THEN o.exc ELSE NoExc)

(* Entry point: the dispatcher of mcp_server.py *)

CallTool(c) ==
    /\ UNCHANGED <<boot, run>>
    /\ MayStart(c)
    /\ UNCHANGED <<tempDirExists, scriptFile>>
    /\ \E name \in handlers \cup UnknownTools :
       \E arguments \in McpArguments(name), mk \in MakedirsOutcomes :
         LET h == IF name \in handlers THEN RunHandler(name, arguments, mk)
                  ELSE ReturnNow(<<>>)
         IN StartCall(c, "mcp", name, arguments, call_tool(name, arguments, mk),
                      IF h.kind = "raise" THEN h.exc ELSE NoExc)

\* a tools/list request of the protocol: list_tools()
ListTools(c) ==
    /\ UNCHANGED <<boot, run>>
    /\ MayStart(c)
    /\ UNCHANGED <<tempDirExists, scriptFile>>
    /\ StartCall(c, "protocol", "list_tools", EmptyDict, ReturnNow(list_tools), NoExc)

(* Entry points: the catalog functions *)

RemeshObject(c) ==
    /\ UNCHANGED <<boot, run>>
    /\ MayStart(c)
    /\ UNCHANGED <<tempDirExists, scriptFile>>
    /\ \E args \in {[object_name |-> "A"]}
                   \cup {[object_name |-> "A", mode |-> m] : m \in Modes}
                   \cup {[object_name |-> "A", octree_depth |-> "6", scale |-> "0.5",
                          mode |-> m] : m \in {"VOXEL", "QUAD"}} :
         StartCall(c, "catalog", "remesh_object", args, remesh_object(args), NoExc)

DecimateObject(c) ==
    /\ UNCHANGED <<boot, run>>
    /\ MayStart(c)
    /\ UNCHANGED <<tempDirExists, scriptFile>>
    /\ \E args \in {[object_name |-> "A"], [object_name |-> "A", ratio |-> "0.25"]}
                   \cup {[object_name |-> "A", decimate_type |-> t] : t \in DecimateTypes} :
         StartCall(c, "catalog", "decimate_object", args, decimate_object(args), NoExc)

JoinObjects(c) ==
    /\ UNCHANGED <<boot, run>>
    /\ MayStart(c)
    /\ UNCHANGED <<tempDirExists, scriptFile>>
    /\ \E l \in NameLists(MaxJoinNames) :
       \E args \in {[object_names |-> l], [object_names |-> l, result_name |-> "R"]} :
         StartCall(c, "catalog", "join_objects", args, join_objects(args), NoExc)

----------------------------------------------------------------------------
(* Process start: the manager's construction and main.py *)

\* common_paths of _find_blender, in its order
common_paths ==
    <<"blender",
      "C:\\Program Files\\Blender Foundation\\Blender 4.5\\blender.exe",
      "C:\\Program Files\\Blender Foundation\\Blender 4.4\\blender.exe",
      "C:\\Program Files\\Blender Foundation\\Blender 4.3\\blender.exe",
      "C:\\Program Files\\Blender Foundation\\Blender 4.2\\blender.exe",
      "C:\\Program Files\\Blender Foundation\\Blender 4.1\\blender.exe",
      "C:\\Program Files\\Blender Foundation\\Blender 4.0\\blender.exe",
      "C:\\Program Files\\Blender Foundation\\Blender 3.6\\blender.exe",
      "C:\\Program Files\\Blender Foundation\\Blender\\blender.exe",
      "/usr/bin/blender",
      "/Applications/Blender.app/Contents/MacOS/Blender">>

\* most candidates an installation makes exist, and resolve on the PATH
MaxInstalled == 1

\* the installation _find_blender probes: the candidates os.path.exists
\* finds, those where/which resolves, and whether the where/which command
\* can be started at all
Environments ==
    [exists : {S \in SUBSET {common_paths[i] : i \in DOMAIN common_paths} :
                  Cardinality(S) <= MaxInstalled},
     onpath : {S \in SUBSET {common_paths[i] : i \in DOMAIN common_paths} :
                  Cardinality(S) <= MaxInstalled},
     lookup : BOOLEAN]

NotFoundError ==
    [type |-> "RuntimeError",
     msg |-> <<"Blender executable not found. Please install Blender or provide the path.">>]

\* subprocess.run(["which", path]) when there is no which command
LookupError ==
    [type |-> "FileNotFoundError",
     msg |-> <<"[Errno 2] No such file or directory: 'which'">>]

\* the loop of _find_blender from candidate i on, lines 43-49
RECURSIVE FindFrom(_, _)
FindFrom(env, i) ==
    IF i > Len(common_paths) THEN [kind |-> "raise", exc |-> NotFoundError]
    ELSE IF common_paths[i] \in env.exists
    THEN [kind |-> "return", path |-> common_paths[i]]
    ELSE IF ~env.lookup THEN [kind |-> "raise", exc |-> LookupError]
    ELSE IF common_paths[i] \in env.onpath
    THEN [kind |-> "return", path |-> common_paths[i]]
    ELSE FindFrom(env, i + 1)

_find_blender(env) == FindFrom(env, 1)

\* the arguments main.py is started with, sys.argv[1:]
Argvs == {<<>>, <<"--test">>, <<"--test", "x">>, <<"x", "--test">>}

\* the argument of BlenderManager(...): line 159 passes none
ExplicitPaths == {None, "", "/opt/blender/blender"}

\* "blender_executable or ...": None and "" are not a path
Supplied(path) == path \notin {None, ""}

NoStatus == -1

\* the process before anything was imported
StartBoot(argv, explicit, env) ==
    [pc |-> "start", argv |-> argv, explicit |-> explicit,
     env |-> env,            \* the installation when the manager is constructed
     testEnv |-> env,        \* the installation when the test mode probes
     executable |-> None,    \* blender_manager.blender_executable
     probed |-> FALSE,       \* __init__ called _find_blender
     exc |-> NoExc,          \* the exception that ended the start
     status |-> NoStatus,    \* exit status of the process
     out |-> <<>>,           \* lines printed on stdout
     err |-> <<>>,           \* lines logged / traced on stderr
     ran |-> FALSE,          \* mcp.run() was called
     cleanup |-> [calls |-> 0, removed |-> FALSE, exc |-> NoExc]]
                             \* the calls of blender_manager.cleanup()

\* the process of the serving phase: started without --test, the manager
\* constructed without a path, blender found on the PATH
ServingBoot ==
    [StartBoot(<<>>, None, [exists |-> {}, onpath |-> {"blender"}, lookup |-> TRUE])
        EXCEPT !.pc = "serving", !.executable = "blender", !.probed = TRUE,
               !.ran = TRUE]

\* blender_manager = BlenderManager(explicit), run by "from server import
\* mcp" (main.py 15, server.py 11, blender_integration.py 159); an exception
\* leaves the import uncaught: traceback, exit status 1
Construct ==
    /\ boot.pc = "start"
    /\ UNCHANGED <<scriptFile, madeDirs, call, run>>
    /\ IF Supplied(boot.explicit)
       THEN /\ boot' = [boot EXCEPT !.pc = "main", !.executable = boot.explicit]
            /\ tempDirExists' = TRUE
       ELSE LET r == _find_blender(boot.env)
            IN IF r.kind = "return"
               THEN /\ boot' = [boot EXCEPT !.pc = "main", !.executable = r.path,
                                            !.probed = TRUE]
                    /\ tempDirExists' = TRUE
               ELSE /\ boot' = [boot EXCEPT !.pc = "exited", !.probed = TRUE,
                                            !.exc = r.exc, !.status = 1,
                                            !.err = <<<<"Traceback: ", r.exc.type>> \o r.exc.msg>>]
                    /\ UNCHANGED tempDirExists

\* mutant: the flag is looked for one position too far
IsTestMode_SecondArgument(argv) == Len(argv) > 1 /\ argv[2] = "--test"

\* len(sys.argv) > 1 and sys.argv[1] == "--test"; argv is sys.argv[1:]
IsTestMode(argv) == Len(argv) > 0 /\ argv[1] = "--test"

\* the installation when the test mode probes it: as at construction, or
\* uninstalled since, or without a where/which command
TestEnvironments(env) ==
    {env, [exists |-> {}, onpath |-> {}, lookup |-> TRUE], [env EXCEPT !.lookup = FALSE]}

\* main() in test mode, lines 23-35
MainTest ==
    /\ boot.pc = "main"
    /\ IsTestMode(boot.argv)
    /\ UNCHANGED <<tempDirExists, scriptFile, madeDirs, call, run>>
    /\ \E env \in TestEnvironments(boot.env) :
         LET r == _find_blender(env)
         IN IF r.kind = "return"
            THEN boot' = [boot EXCEPT !.pc = "exited", !.testEnv = env, !.status = 0,
                                      !.err = <<<<"Blender found at: ", r.path>>>>,
                                      !.out = << <<"Server configuration test passed">> >>]
            ELSE boot' = [boot EXCEPT !.pc = "exited", !.testEnv = env, !.status = 1,
                                      !.exc = r.exc,
                                      !.err = << <<"Configuration test failed: ">> \o r.exc.msg >>,
                                      !.out = << <<"Configuration test failed: ">> \o r.exc.msg >>]

\* main() without --test: mcp.run(), line 42
MainRun ==
    /\ boot.pc = "main"
    /\ ~IsTestMode(boot.argv)
    /\ boot' = [boot EXCEPT !.pc = "serving", !.ran = TRUE]
    /\ UNCHANGED <<tempDirExists, scriptFile, madeDirs, call, run>>

\* how mcp.run() ends: it returns, or KeyboardInterrupt, or an exception
RunOutcomes == {"returned", "interrupted", "failed"}

\* the end of the process once the protocol loop is over, lines 42-49
Shutdown ==
    /\ boot.pc = "serving"
    /\ \A c \in Callers : ~InFlight(c)
    /\ \E o \in RunOutcomes :
         boot' = [boot EXCEPT !.pc = "exited",
                              !.status = IF o = "failed" THEN 1 ELSE 0,
                              !.err = IF o = "interrupted"
                                      THEN << <<"Server shutdown requested by user">> >>
                                      ELSE IF o = "failed" THEN << <<"Server error: ">> >>
                                      ELSE <<>>]
    /\ UNCHANGED <<tempDirExists, scriptFile, madeDirs, call, run>>

----------------------------------------------------------------------------
(* The generated script and its run inside Blender *)

\* longest list of statements handed to create_basic_script
MaxOperations == 2

\* statements a caller splices in: a plain assignment, a result that JSON
\* can encode, a result that it cannot (a bpy object), a bpy operator that
\* may fail, a raise, and an exit
Statements ==
    { <<"x = 1">>,
      <<"results.append({\"object\": \"Cube\"})">>,
      <<"results.append(bpy.context.active_object)">>,
      <<"bpy.ops.mesh.primitive_cube_add(size=2.0)">>,
      <<"raise ValueError(\"boom\")">>,
      <<"sys.exit(0)">> }

OperationLists == UNION {[1..n -> Statements] : n \in 0..MaxOperations}

NotRaised == [type |-> "none", line |-> 0]

NoRun ==
    [pc |-> "none",
     operations |-> <<>>,   \* the list passed to create_basic_script
     script |-> <<>>,       \* the script it returned
     line |-> 0,            \* the line of the script being executed
     results |-> <<>>,      \* the script's list `results`
     stdout |-> <<>>,       \* the marker lines printed so far
     status |-> NoStatus,   \* the exit status of the process
     raised |-> NotRaised]  \* what was raised in the try block, and where

\* the lines of the template that call Blender operators
ClearSelect == TemplateHead[8]
ClearDelete == TemplateHead[9]

\* line 132 and line 134 of the template
SuccessPrint == TemplateTail[1]
ExceptClause == TemplateTail[2]

\* json.dumps raises TypeError for a value that is no JSON type
Serializable(results) == \A i \in DOMAIN results : results[i] # "<bpy object>"

\* what executing one line of the try block does: go on to the next line,
\* print the success marker, raise an exception derived from Exception, or
\* raise SystemExit
LineOutcomes(line, results) ==
    CASE line = <<"raise ValueError(\"boom\")">> -> {"raise"}
      [] line = <<"sys.exit(0)">> -> {"exit"}
      [] line \in {ClearSelect, ClearDelete,
                   <<"bpy.ops.mesh.primitive_cube_add(size=2.0)">>} -> {"next", "raise"}
      [] line = SuccessPrint ->
           IF Serializable(results) THEN {"print"} ELSE {"raise"}
      [] OTHER -> {"next"}

\* the list `results` after the line has run
ResultsAfter(line, results) ==
    CASE line = <<"results.append({\"object\": \"Cube\"})">> ->
           Append(results, "{\"object\": \"Cube\"}")
      [] line = <<"results.append(bpy.context.active_object)">> ->
           Append(results, "<bpy object>")
      [] line = <<"results = []">> -> <<>>
      [] OTHER -> results

SuccessLine(results) ==
    [marker |-> "BLENDER_MCP_SUCCESS:", json |-> [success |-> TRUE, results |-> results]]

ErrorLine ==
    [marker |-> "BLENDER_MCP_ERROR:",
     json |-> [success |-> FALSE, error |-> "str(e)", traceback |-> "Traceback ..."]]

\* the first line of the try block, and the line of its except clause
TryLine(script) ==
    CHOOSE i \in DOMAIN script :
        script[i] = <<"try:">> /\ \A j \in 1..(i - 1) : script[j] # <<"try:">>

ExceptLine(script) ==
    CHOOSE i \in DOMAIN script :
        script[i] = ExceptClause /\ \A j \in (i + 1)..Len(script) : script[j] # ExceptClause

\* create_basic_script(operations) is called
BuildScript ==
    /\ run.pc = "unbuilt"
    /\ run' = [run EXCEPT !.pc = "built",
                          !.script = create_basic_script(run.operations)]
    /\ UNCHANGED <<tempDirExists, scriptFile, madeDirs, call, boot>>

\* blender --python runs the module: the imports, the def, and the call of
\* main() under the __main__ guard, which enters the try block
StartScript ==
    /\ run.pc = "built"
    /\ run' = [run EXCEPT !.pc = "body", !.line = TryLine(run.script) + 1]
    /\ UNCHANGED <<tempDirExists, scriptFile, madeDirs, call, boot>>

\* one line of the try block runs; after the last one main() returns and
\* the process exits with status 0
RunLine ==
    /\ run.pc = "body"
    /\ LET line == run.script[run.line]
           last == run.line + 1 = ExceptLine(run.script)
           after == IF last THEN [run EXCEPT !.pc = "exited", !.status = 0]
                    ELSE [run EXCEPT !.line = @ + 1]
       IN \E o \in LineOutcomes(line, run.results) :
            CASE o = "next" ->
                   run' = [after EXCEPT !.results = ResultsAfter(line, run.results)]
              [] o = "print" ->
                   run' = [after EXCEPT !.stdout = Append(@, SuccessLine(run.results))]
              [] o = "raise" ->
                   run' = [run EXCEPT !.pc = "handler",
                                      !.raised = [type |-> "Exception", line |-> run.line]]
              [] o = "exit" ->
                   run' = [run EXCEPT !.pc = "exited", !.status = 0,
                                      !.raised = [type |-> "SystemExit", line |-> run.line]]
    /\ UNCHANGED <<tempDirExists, scriptFile, madeDirs, call, boot>>

\* mutant: the except block ends without sys.exit(1)
ExceptBlock_NoExit ==
    /\ run.pc = "handler"
    /\ run' = [run EXCEPT !.pc = "exited", !.status = 0,
                          !.stdout = Append(@, ErrorLine)]
    /\ UNCHANGED <<tempDirExists, scriptFile, madeDirs, call, boot>>

\* lines 134-141: the except block prints the error marker and exits with 1
ExceptBlock ==
    /\ run.pc = "handler"
    /\ run' = [run EXCEPT !.pc = "exited", !.status = 1,
                          !.stdout = Append(@, ErrorLine)]
    /\ UNCHANGED <<tempDirExists, scriptFile, madeDirs, call, boot>>

\* the timeout of subprocess.run kills the process while the script runs
KillRun ==
    /\ run.pc \in {"body", "handler"}
    /\ run' = [run EXCEPT !.pc = "killed", !.status = -9]
    /\ UNCHANGED <<tempDirExists, scriptFile, madeDirs, call, boot>>

----------------------------------------------------------------------------
Init ==
    /\ tempDirExists = TRUE
    /\ scriptFile = NoFile
    /\ madeDirs = {}
    /\ call = [c \in {1} |-> IdleCall]
    /\ boot = ServingBoot
    /\ run = NoRun

Next ==
    \/ \E c \in Callers : ExecuteDirect(c)
    \/ \E c \in Callers : CreateCube(c)
    \/ \E c \in Callers : CreateSphere(c)
    \/ \E c \in Callers : CreateCylinder(c)
    \/ \E c \in Callers : CreatePlane(c)
    \/ \E c \in Callers : CreateCone(c)
    \/ \E c \in Callers : ExportModel(c)
    \/ \E c \in Callers : SaveBlendFile(c)
    \/ \E c \in Callers : CallTool(c)
    \/ \E c \in Callers : ListTools(c)
    \/ \E c \in Callers : ListAvailableTools(c)
    \/ \E c \in Callers : AdvancedTool(c)
    \/ \E c \in Callers : WrapperBody(c)
    \/ \E c \in Callers : RemeshObject(c)
    \/ \E c \in Callers : DecimateObject(c)
    \/ \E c \in Callers : JoinObjects(c)
    \/ \E c \in Callers : ExecWrite(c)
    \/ \E c \in Callers : ExecLaunch(c)
    \/ \E c \in Callers : ExecWait(c)
    \/ \E c \in Callers : ExecRemove(c)
    \/ \E c \in Callers : Return(c)
    \/ cleanup

Spec == Init /\ [][Next]_vars

\* two threads calling the executor of one manager
InitConcurrent ==
    /\ tempDirExists = TRUE
    /\ scriptFile = NoFile
    /\ madeDirs = {}
    /\ call = [c \in {1, 2} |-> IdleCall]
    /\ boot = ServingBoot
    /\ run = NoRun

NextConcurrent ==
    \/ \E c \in Callers : ExecuteOverlapping(c)
    \/ \E c \in Callers : ExecWrite(c)
    \/ \E c \in Callers : ExecLaunch(c)
    \/ \E c \in Callers : ExecWait(c)
    \/ \E c \in Callers : ExecRemove(c)
    \/ \E c \in Callers : Return(c)

SpecConcurrent == InitConcurrent /\ [][NextConcurrent]_vars

\* the start of a process: nothing imported, no temporary directory
InitStartup ==
    /\ tempDirExists = FALSE
    /\ scriptFile = NoFile
    /\ madeDirs = {}
    /\ call = [c \in {1} |-> IdleCall]
    /\ \E argv \in Argvs, explicit \in ExplicitPaths, env \in Environments :
          boot = StartBoot(argv, explicit, env)
    /\ run = NoRun

NextStartup ==
    \/ Construct
    \/ MainTest
    \/ MainRun
    \/ Shutdown

SpecStartup == InitStartup /\ [][NextStartup]_vars

\* a list of statements is given to the Script Builder and the script it
\* returns is run by Blender
InitScript ==
    /\ tempDirExists = TRUE
    /\ scriptFile = NoFile
    /\ madeDirs = {}
    /\ call = [c \in {1} |-> IdleCall]
    /\ boot = ServingBoot
    /\ \E ops \in OperationLists :
          run = [NoRun EXCEPT !.pc = "unbuilt", !.operations = ops]

NextScript ==
    \/ BuildScript
    \/ StartScript
    \/ RunLine
    \/ ExceptBlock
    \/ KillRun

SpecScript == InitScript /\ [][NextScript]_vars

\* direct calls of the executor, one after the other
NextExecutor ==
    \/ \E c \in Callers : ExecuteDirect(c)
    \/ \E c \in Callers : ExecWrite(c)
    \/ \E c \in Callers : ExecLaunch(c)
    \/ \E c \in Callers : ExecWait(c)
    \/ \E c \in Callers : ExecRemove(c)
    \/ \E c \in Callers : Return(c)
    \/ cleanup

\* the interpreter runs each statement of execute_blender_script once the
\* one before it is done, and subprocess.run returns or raises: every step
\* of a call in flight is taken
SpecExecutorLive ==
    /\ Init
    /\ [][NextExecutor]_vars
    /\ \A c \in {1} :
          /\ WF_vars(ExecWrite(c))
          /\ WF_vars(ExecLaunch(c))
          /\ WF_vars(ExecWait(c))
          /\ WF_vars(ExecRemove(c))

----------------------------------------------------------------------------
(* Properties of the Process Executor *)

\* the call of caller c is over: its entry point returned or raised
Over(c) == call[c].pc \in {"returned", "raised"}

\* the subprocess of the call ran to completion (subprocess.run returned)
Completed(c) == DOMAIN call[c].proc # {}

\* C1: when the subprocess exceeds the timeout, execute_blender_script
\* returns {success: False, error: "... timed out", timeout: True} and no
\* exception leaves it.
C1_TimeoutReturnsResult ==
    \A c \in Callers :
        call[c].execExc.type = "TimeoutExpired" =>
            /\ call[c].pc = "returned"
            /\ call[c].exc = NoExc
            /\ call[c].result = [success |-> FALSE,
                                 error |-> <<"Blender script execution timed out">>,
                                 timeout |-> TRUE]

C1_Witness ==
    \E c \in Callers :
        /\ call[c].layer = "executor"
        /\ call[c].launched # <<>>
        /\ call[c].execExc.type = "TimeoutExpired"
        /\ call[c].pc = "returned"
        /\ call[c].response = call[c].result

\* C2 as claimed: whenever the subprocess ran to completion, the call
\* returns exactly {success, stdout, stderr, returncode} with
\* success = (returncode = 0) and the captured values.
C2_CompletedReturnsCaptured ==
    \A c \in Callers :
        (Completed(c) /\ Over(c)) =>
            /\ call[c].pc = "returned"
            /\ call[c].result = [success |-> (call[c].proc.returncode = 0),
                                 stdout |-> call[c].proc.stdout,
                                 stderr |-> call[c].proc.stderr,
                                 returncode |-> call[c].proc.returncode]

\* C2 amended: whenever the subprocess ran to completion and the staged
\* script file was then removed without error, the call returns exactly
\* {success, stdout, stderr, returncode} with success = (returncode = 0) and
\* the captured values.
C2_CompletedAndRemovedReturnsCaptured ==
    \A c \in Callers :
        (Completed(c) /\ Over(c) /\ call[c].execExc = NoExc) =>
            /\ call[c].pc = "returned"
            /\ call[c].result = [success |-> (call[c].proc.returncode = 0),
                                 stdout |-> call[c].proc.stdout,
                                 stderr |-> call[c].proc.stderr,
                                 returncode |-> call[c].proc.returncode]

C2_Witness ==
    \E c \in Callers :
        /\ Completed(c) /\ Over(c) /\ call[c].execExc = NoExc
        /\ call[c].proc.returncode = 1
        /\ call[c].proc.stderr = ""
        /\ call[c].result.success = FALSE

\* C3: a failure inside execute_blender_script other than a timeout (the
\* script cannot be written, the executable cannot be started, the script
\* cannot be removed) returns {success: False, error: <message>} without a
\* timeout field, and no exception leaves the function.
C3_FailureReturnsError ==
    \A c \in Callers :
        call[c].execExc.type \notin {"none", "TimeoutExpired"} =>
            /\ call[c].pc = "returned"
            /\ call[c].exc = NoExc
            /\ call[c].result = [success |-> FALSE, error |-> call[c].execExc.msg]

C3_Witness ==
    \E c \in Callers :
        /\ Completed(c)
        /\ call[c].execExc.type = "PermissionError"
        /\ call[c].pc = "returned"
        /\ scriptFile = call[c].script

\* C4 as claimed: in every state in which no execute call is in flight the
\* staged script file does not exist.
C4_NoStagedFileOutsideExecute ==
    (\A c \in Callers : ~InExecute(c)) => scriptFile = NoFile

----------------------------------------------------------------------------
(* Properties of the tools *)

\* the dict a tool call returned: the return value of a server.py tool or
\* of a catalog function, the JSON document of a handler's TextContent
ResponseDict(c) ==
    IF call[c].layer = "mcp" THEN call[c].response[1].text.json
    ELSE call[c].response

\* text contains the consecutive pieces sub
Contains(text, sub) ==
    \E i \in 0..(Len(text) - Len(sub)) : SubSeq(text, i + 1, i + Len(sub)) = sub

\* the call built no script, launched no subprocess, created no directory
\* and never entered the executor
NoExecution(c) ==
    /\ call[c].script = <<>>
    /\ call[c].launched = <<>>
    /\ call[c].mkdirs = {}
    /\ DOMAIN call[c].result = {}

\* the call handed a script to the executor
ReachedExecution(c) ==
    /\ call[c].script # <<>>
    /\ InExecute(c) \/ DOMAIN call[c].result # {}

\* the call returned {success: False, error: ...} without any execution
Rejected(c) ==
    /\ call[c].pc = "returned"
    /\ call[c].exc = NoExc
    /\ DOMAIN ResponseDict(c) = {"success", "error"}
    /\ ResponseDict(c).success = FALSE
    /\ ResponseDict(c).error # <<>>
    /\ NoExecution(c)

IsExportModel(c) ==
    call[c].tool = "export_model" /\ call[c].layer \in {"server", "mcp"}

ExportFormat(c) == Get(call[c].args, "format", <<"o", "b", "j">>)

ExportFormats == {<<"o", "b", "j">>, <<"f", "b", "x">>, <<"s", "t", "l">>, <<"p", "l", "y">>}

\* C5 as claimed: export_model rejects every format value that is not one
\* of obj, fbx, stl, ply with an error naming the format, creating no
\* directory, writing no script and launching no subprocess.
C5_RejectsEveryFormatOutsideList ==
    \A c \in Callers :
        (IsExportModel(c) /\ ExportFormat(c) \notin ExportFormats) =>
            /\ Rejected(c)
            /\ Contains(ResponseDict(c).error, Lower(ExportFormat(c)))

\* C5 amended: export_model rejects every format whose lower-cased form is
\* not one of obj, fbx, stl, ply, creating no directory, writing no script
\* and launching no subprocess; the error names the lower-cased format,
\* except that the mcp_server.py handler called without a filepath answers
\* "filepath is required".
C5_RejectsLoweredFormatOutsideList ==
    \A c \in Callers :
        (IsExportModel(c) /\ Lower(ExportFormat(c)) \notin ExportFormats) =>
            /\ Rejected(c)
            /\ IF call[c].layer = "mcp" /\ Get(call[c].args, "filepath", <<>>) = <<>>
               THEN ResponseDict(c).error = <<"filepath is required">>
               ELSE /\ ResponseDict(c).error[1] = "Unsupported format: "
                    /\ Contains(ResponseDict(c).error, Lower(ExportFormat(c)))

C5_Witness ==
    \E c \in Callers :
        /\ IsExportModel(c)
        /\ call[c].layer = "server"
        /\ ExportFormat(c) = <<"g", "l", "t", "f">>
        /\ call[c].args.filepath = <<"d", "/", "m">>
        /\ Rejected(c)

\* C6: remesh_object rejects every mode outside BLOCKS, SMOOTH, SHARP,
\* VOXEL and decimate_object every decimate_type outside COLLAPSE,
\* UNSUBDIV, DISSOLVE, with success=False and an error, building no script
\* and launching no subprocess; every value in the list reaches execution.
C6_AllowLists ==
    \A c \in Callers :
        /\ (call[c].layer = "catalog" /\ call[c].tool = "remesh_object") =>
              IF Get(call[c].args, "mode", "BLOCKS") \in {"BLOCKS", "SMOOTH", "SHARP", "VOXEL"}
              THEN ReachedExecution(c)
              ELSE Rejected(c)
        /\ (call[c].layer = "catalog" /\ call[c].tool = "decimate_object") =>
              IF Get(call[c].args, "decimate_type", "COLLAPSE")
                    \in {"COLLAPSE", "UNSUBDIV", "DISSOLVE"}
              THEN ReachedExecution(c)
              ELSE Rejected(c)

C6_Witness ==
    \E c \in Callers :
        /\ call[c].layer = "catalog"
        /\ call[c].tool = "remesh_object"
        /\ Get(call[c].args, "mode", "BLOCKS") = "blocks"
        /\ Rejected(c)

\* the object names a statement refers to, in their order
NamesIn(statement) == SelectSeq(statement, LAMBDA t : t \in ObjectNames)

\* the i-th statement the tool spliced into its script
Statement(c, i) == call[c].script[Len(TemplateHead) + i]

\* C7: join_objects with fewer than 2 names returns success=False with an
\* error, builds no script and launches no subprocess; with 2 or more names
\* it reaches execution and its statements refer to every given name in the
\* order given.
C7_JoinNeedsTwo ==
    \A c \in Callers :
        (call[c].layer = "catalog" /\ call[c].tool = "join_objects") =>
            IF Len(call[c].args.object_names) < 2
            THEN Rejected(c)
            ELSE /\ ReachedExecution(c)
                 /\ NamesIn(Statement(c, 1)) = call[c].args.object_names
                 /\ NamesIn(Statement(c, 8)) = call[c].args.object_names

C7_Witness ==
    \E c \in Callers :
        /\ call[c].layer = "catalog"
        /\ call[c].tool = "join_objects"
        /\ Len(call[c].args.object_names) = 1
        /\ Rejected(c)

Registry ==
    {"get_server_info", "list_available_tools", "create_cube", "create_sphere",
     "create_cylinder", "create_plane", "create_cone", "clear_scene",
     "save_blend_file", "export_model"}

\* C8: call_tool with a name that is not registered returns an error
\* response in the protocol's shape (one TextContent of type "text" whose
\* text names the unknown tool), runs no handler, launches no subprocess and
\* lets no exception out.
C8_UnknownToolAnswered ==
    \A c \in Callers :
        (call[c].layer = "mcp" /\ call[c].tool \notin Registry) =>
            /\ call[c].pc = "returned"
            /\ call[c].exc = NoExc
            /\ call[c].response =
                  <<[type |-> "text", text |-> [plain |-> <<"Unknown tool: ", call[c].tool>>]]>>
            /\ call[c].locals = EmptyDict
            /\ call[c].toolExc = NoExc
            /\ NoExecution(c)

C8_Witness ==
    \E c \in Callers :
        /\ call[c].layer = "mcp"
        /\ call[c].tool = "remesh_object"
        /\ call[c].pc = "returned"

\* C9: for every registered tool and every arguments dict call_tool returns
\* a response and lets no exception out; an exception raised by the handler
\* becomes the response {success: False, error: <message>}.
C9_HandlerExceptionsAnswered ==
    \A c \in Callers :
        (call[c].layer = "mcp" /\ call[c].tool \in Registry) =>
            /\ call[c].pc # "raised"
            /\ call[c].exc = NoExc
            /\ call[c].pc = "returned" =>
                  /\ Len(call[c].response) = 1
                  /\ call[c].response[1].type = "text"
            /\ call[c].toolExc # NoExc =>
                  /\ call[c].pc = "returned"
                  /\ call[c].response =
                        <<[type |-> "text",
                           text |-> [json |-> [success |-> FALSE,
                                               error |-> call[c].toolExc.msg]]]>>
                  /\ call[c].launched = <<>>

C9_Witness ==
    \E c \in Callers :
        /\ call[c].layer = "mcp"
        /\ call[c].tool = "create_cone"
        /\ call[c].toolExc.type = "TypeError"
        /\ call[c].pc = "returned"

Primitives ==
    {"create_cube", "create_sphere", "create_cylinder", "create_plane", "create_cone"}

\* the defaults of the numeric parameters of each primitive, and of its name
NumericDefaults(tool) ==
    CASE tool = "create_cube" -> [size |-> "2.0"]
      [] tool = "create_sphere" -> [radius |-> "1.0"]
      [] tool = "create_cylinder" -> [radius |-> "1.0", depth |-> "2.0"]
      [] tool = "create_plane" -> [size |-> "2.0"]
      [] tool = "create_cone" -> [radius1 |-> "1.0", radius2 |-> "0.0", depth |-> "2.0"]

NameDefault(tool) ==
    CASE tool = "create_cube" -> "Cube"
      [] tool = "create_sphere" -> "Sphere"
      [] tool = "create_cylinder" -> "Cylinder"
      [] tool = "create_plane" -> "Plane"
      [] tool = "create_cone" -> "Cone"

LocationDefault(layer) ==
    IF layer = "server" THEN [kind |-> "tuple", v |-> <<"0", "0", "0">>]
    ELSE [kind |-> "list", v |-> <<"0", "0", "0">>]

\* C10: when the executor reports success, the response of a primitive
\* creation tool has success=True, and object_name and parameters hold
\* every input parameter with the value the caller passed, or its default.
C10_PrimitivesEchoParameters ==
    \A c \in Callers :
        (/\ call[c].tool \in Primitives
         /\ call[c].pc = "returned"
         /\ DOMAIN call[c].result # {}
         /\ call[c].result.success) =>
            LET r == ResponseDict(c)
                d == NumericDefaults(call[c].tool)
            IN /\ r.success = TRUE
               /\ r.object_name = Get(call[c].args, "name", NameDefault(call[c].tool))
               /\ DOMAIN r.parameters = DOMAIN d \cup {"location"}
               /\ \A k \in DOMAIN d : r.parameters[k] = Get(call[c].args, k, d[k])
               /\ r.parameters.location =
                     Get(call[c].args, "location", LocationDefault(call[c].layer))

C10_Witness ==
    \E c \in Callers :
        /\ call[c].tool = "create_cone"
        /\ call[c].layer = "server"
        /\ DOMAIN call[c].args = {"radius1", "radius2", "depth", "location", "name"}
        /\ call[c].pc = "returned"
        /\ DOMAIN call[c].result # {}
        /\ call[c].result.success


----------------------------------------------------------------------------
(* Properties of single scenarios and of the command line *)

\* the call create_cube(size=2.0, location=[0,0,0], name="Cube")
IsExampleCube(c) ==
    /\ call[c].tool = "create_cube"
    /\ call[c].layer \in {"server", "mcp"}
    /\ call[c].args = [size |-> "2.0", location |-> List3("0", "0", "0"), name |-> "Cube"]

\* a statement adding a cube of size 2.0 at the origin
AddsUnitCubeAtOrigin(statement) ==
    /\ Len(statement) = 11
    /\ SubSeq(statement, 1, 3) =
          <<"bpy.ops.mesh.primitive_cube_add(size=", "2.0", ", location=">>
    /\ statement[4] \in {"(", "["}
    /\ <<statement[5], statement[7], statement[9]>> = <<"0", "0", "0">>
    /\ statement[11] = ")"

\* C11: create_cube(size=2.0, location=[0,0,0], name="Cube") generates a
\* script in which a statement creating a cube of size 2.0 at the origin is
\* directly followed by the statement renaming the active object to "Cube",
\* and when the executor returns exit code 0 the response has success
\* true, object_name "Cube", object_type "cube" and parameters
\* {size: 2.0, location: [0,0,0]}.
C11_ExampleCube ==
    \A c \in Callers :
        IsExampleCube(c) =>
            /\ call[c].script # <<>>
            /\ AddsUnitCubeAtOrigin(Statement(c, 1))
            /\ Statement(c, 2) = <<"bpy.context.active_object.name = \"", "Cube", "\"">>
            /\ (call[c].pc = "returned" /\ Get(call[c].result, "returncode", 1) = 0) =>
                  /\ ResponseDict(c).success = TRUE
                  /\ ResponseDict(c).object_name = "Cube"
                  /\ ResponseDict(c).object_type = "cube"
                  /\ ResponseDict(c).parameters =
                        [size |-> "2.0", location |-> List3("0", "0", "0")]

C11_Witness ==
    \E c \in Callers :
        /\ IsExampleCube(c)
        /\ call[c].layer = "mcp"
        /\ call[c].pc = "returned"
        /\ Get(call[c].result, "returncode", 1) = 0


\* a blend file was given: the argument is neither None nor empty
BlendFileGiven(c) == call[c].blend_file \notin {None, ""}

\* C12: every command line execute_blender_script launches is the
\* executable, then the blend file alone when one is given (a non-empty
\* path) or else --background --factory-startup, then --python and the
\* staged script path last; the blend file and the headless flags never
\* appear together.
C12_CommandLine ==
    \A c \in Callers :
        \A i \in DOMAIN call[c].launched :
            LET cmd == call[c].launched[i].cmd
                mid == SubSeq(cmd, 2, Len(cmd) - 2)
            IN /\ Len(cmd) >= 4
               /\ cmd[1] = blender_executable
               /\ cmd[Len(cmd) - 1] = "--python"
               /\ cmd[Len(cmd)] = script_file
               /\ IF BlendFileGiven(c)
                  THEN mid = <<call[c].blend_file>>
                  ELSE mid = <<"--background", "--factory-startup">>
               /\ ~ \E j, k \in DOMAIN mid :
                       /\ mid[j] = call[c].blend_file
                       /\ mid[k] \in {"--background", "--factory-startup"}

C12_Witness ==
    \E c \in Callers :
        /\ call[c].blend_file = "scene.blend"
        /\ Len(call[c].launched) = 1
        /\ call[c].launched[1].cmd[2] = "scene.blend"
        /\ call[c].pc = "returned"


----------------------------------------------------------------------------
(* Properties of the process start and end *)

\* the candidate exists on disk or resolves through the where/which lookup
Qualifies(env, path) == path \in env.exists \/ (env.lookup /\ path \in env.onpath)

\* the first candidate of the ordered list that qualifies
FirstQualifying(env) ==
    common_paths[CHOOSE i \in DOMAIN common_paths :
                    /\ Qualifies(env, common_paths[i])
                    /\ \A j \in 1..(i - 1) : ~Qualifies(env, common_paths[j])]

\* C13 as claimed: a manager constructed without a path uses the first
\* candidate of the ordered list that exists on disk or resolves through
\* the lookup, and its construction fails with the configuration error when
\* no candidate qualifies; a manager given a path uses it without probing.
C13_FirstQualifyingCandidate ==
    boot.pc # "start" =>
        IF Supplied(boot.explicit)
        THEN boot.executable = boot.explicit /\ ~boot.probed
        ELSE IF \E i \in DOMAIN common_paths : Qualifies(boot.env, common_paths[i])
        THEN boot.executable = FirstQualifying(boot.env)
        ELSE /\ boot.executable = None
             /\ boot.pc = "exited"
             /\ boot.exc.type = "RuntimeError"

\* C14: started with --test as its first argument, main never calls
\* mcp.run; when the resolution succeeds it prints that the configuration
\* test passed and returns, and when it fails the failure is reported and
\* the process exits with status 1.
C14_TestModeNeverServes ==
    (Len(boot.argv) > 0 /\ boot.argv[1] = "--test") =>
        /\ ~boot.ran
        /\ boot.pc # "serving"
        /\ boot.pc = "exited" =>
              IF boot.exc = NoExc
              THEN /\ boot.out = << <<"Server configuration test passed">> >>
                   /\ boot.status = 0
              ELSE /\ boot.status = 1
                   /\ boot.err # <<>>
                   /\ \A i \in DOMAIN boot.out :
                         boot.out[i] # <<"Server configuration test passed">>

C14_Witness ==
    /\ boot.argv = <<"--test">>
    /\ boot.pc = "exited"
    /\ boot.executable # None
    /\ boot.exc.type = "RuntimeError"
    /\ boot.out # <<>>
    /\ boot.status = 1

\* C16 as claimed: a process that constructed its manager never ends with
\* the temporary directory still on disk (removed zero times).
C16_DirectoryRemovedByExit ==
    (boot.pc = "exited" /\ boot.executable # None) => ~tempDirExists


----------------------------------------------------------------------------
(* Properties of the invocations *)

\* the executor failed before a process existed: staging the script or
\* starting the executable raised
FailedBeforeStart(c) ==
    /\ call[c].execExc.type \in {"FileNotFoundError", "PermissionError", "OSError"}
    /\ ~Completed(c)

\* C15: no invocation ever launches a second subprocess, whatever the
\* first one did (timeout, non-zero exit, any failure); an invocation that
\* went through the executor has launched exactly one unless staging the
\* script or starting the executable failed, and it returns only after
\* that subprocess has finished or timed out.
C15_OneBlockingSubprocess ==
    \A c \in Callers :
        /\ Len(call[c].launched) <= 1
        /\ (Over(c) /\ call[c].script # <<>>) =>
              /\ Len(call[c].launched) = 0 <=> FailedBeforeStart(c)
              /\ Len(call[c].launched) = 1 =>
                    \/ Completed(c)
                    \/ call[c].execExc.type = "TimeoutExpired"

C15_Witness ==
    \E c \in Callers :
        /\ call[c].layer = "server"
        /\ call[c].pc = "returned"
        /\ Len(call[c].launched) = 1
        /\ Completed(c)
        /\ call[c].proc.returncode = 1


\* the call returned a response built from an execution result
BuiltFromResult(c) ==
    /\ call[c].layer \in {"server", "mcp", "catalog"}
    /\ call[c].pc = "returned"
    /\ DOMAIN call[c].result # {}

\* C17 as claimed: errors is None whenever success is true and holds the
\* stderr captured from the subprocess whenever success is false.
C17_ErrorsHoldCapturedStderr ==
    \A c \in Callers :
        BuiltFromResult(c) =>
            IF ResponseDict(c).success
            THEN ResponseDict(c).errors = None
            ELSE /\ Completed(c)
                 /\ ResponseDict(c).errors = call[c].proc.stderr

\* C17 amended: errors is None whenever success is true; whenever success
\* is false it holds the stderr captured from the subprocess if the
\* executor returned its normal result, and the empty string if the
\* executor returned an error result (timeout, or an exception while
\* staging, starting or removing).
C17_ErrorsHoldResultStderr ==
    \A c \in Callers :
        BuiltFromResult(c) =>
            IF ResponseDict(c).success
            THEN ResponseDict(c).errors = None
            ELSE IF call[c].execExc = NoExc
            THEN /\ Completed(c)
                 /\ ResponseDict(c).errors = call[c].proc.stderr
            ELSE ResponseDict(c).errors = ""

C17_Witness ==
    \E c \in Callers :
        /\ BuiltFromResult(c)
        /\ call[c].layer = "catalog"
        /\ call[c].execExc.type = "TimeoutExpired"
        /\ ResponseDict(c).success = FALSE
        /\ ResponseDict(c).errors = ""


----------------------------------------------------------------------------
(* Properties of the registry *)

\* the names a returned list_available_tools call lists
ListedNames(c) ==
    LET l == IF call[c].layer = "mcp" THEN call[c].response[1].text.json
             ELSE call[c].response
    IN {l[i] : i \in DOMAIN l}

\* C18 as claimed: the names list_tools publishes are exactly the names
\* call_tool dispatches, and every name list_available_tools returns, in
\* mcp_server.py and in server.py, is a tool registered in that module.
C18_RegistryConsistent ==
    \A c \in Callers :
        /\ (call[c].tool = "list_tools" /\ call[c].pc = "returned") =>
              {call[c].response[i] : i \in DOMAIN call[c].response} = handlers
        /\ (call[c].tool = "list_available_tools" /\ call[c].pc = "returned") =>
              ListedNames(c) \subseteq
                  (IF call[c].layer = "mcp" THEN handlers ELSE registered_tools)


\* C19 as claimed: an advanced tool of server.py enters its wrapper once,
\* hands the call to the catalog function of its module, and returns that
\* function's response; no exception leaves it.
C19_AdvancedToolsDispatch ==
    \A c \in Callers :
        (call[c].layer = "server" /\ call[c].tool \in registered_tools \ handlers) =>
            /\ call[c].depth <= 1
            /\ call[c].pc # "raised"
            /\ Over(c) => DOMAIN call[c].response # {}


----------------------------------------------------------------------------
(* Properties of overlapping calls *)

\* C20: overlapping execute_blender_script calls all stage their script in
\* the one file <temp_dir>/temp_script.py and every subprocess is launched
\* on whatever that file holds at the time: a script some call staged,
\* what a failed write left of it, or nothing once another call has
\* removed it; the witness is a state in which a subprocess was launched
\* on the other call's script.
C20_SharedScriptFile ==
    \A c \in Callers :
        \A i \in DOMAIN call[c].launched :
            /\ call[c].launched[i].cmd[Len(call[c].launched[i].cmd)] =
                  <<"/tmp/blender_mcp_x", "/", "temp_script.py">>
            /\ \/ call[c].launched[i].content = NoFile
               \/ call[c].launched[i].content = Truncated
               \/ \E s \in DirectScripts : call[c].launched[i].content = s

C20_Witness ==
    \E c, d \in Callers :
        /\ c # d
        /\ InExecute(c) /\ InExecute(d)
        /\ Len(call[c].launched) = 1
        /\ call[c].launched[1].content = call[d].script
        /\ call[c].launched[1].content # call[c].script

----------------------------------------------------------------------------
(* Properties of the staged script file *)

\* the call left execute_blender_script by its return statement at lines
\* 85-90: the subprocess exited and nothing raised in the try block
NormalCompletion(c) ==
    /\ Completed(c)
    /\ call[c].pc = "returned"
    /\ call[c].execExc = NoExc

\* C21: on the normal-completion path the script file holds the whole
\* script from before the launch until the subprocess has exited (the
\* subprocess was started on the whole script), and the file is gone when
\* the result is returned to the caller.
C21_StagedThenRemoved ==
    \A c \in Callers :
        /\ call[c].pc \in {"launch", "wait", "remove"} => scriptFile = call[c].script
        /\ \A i \in DOMAIN call[c].launched :
              call[c].launched[i].content = call[c].script
        /\ NormalCompletion(c) =>
              /\ Len(call[c].launched) = 1
              /\ scriptFile = NoFile

C21_Witness ==
    \E c \in Callers :
        /\ NormalCompletion(c)
        /\ call[c].proc.returncode = 1
        /\ call[c].launched[1].content = call[c].script
        /\ call[c].script # <<>>
        /\ scriptFile = NoFile

----------------------------------------------------------------------------
(* Properties of the generated script *)

\* the markers of the lines the run has printed
Markers == [i \in DOMAIN run.stdout |-> run.stdout[i].marker]

\* the lines of the script that hold the caller's statements
StatementLines ==
    (Len(TemplateHead) + 1)..(Len(TemplateHead) + Len(run.operations))

\* the run went through every spliced statement and none of them raised
StatementsCompleted ==
    /\ run.pc = "exited"
    /\ run.raised.line \notin 1..(Len(TemplateHead) + Len(run.operations))

C23_StatementsSpliced ==
    run.pc \notin {"none", "unbuilt"} =>
        /\ \E k \in 3..Len(run.script) :
              /\ run.script[k - 2] = <<"bpy.ops.object.select_all(action='SELECT')">>
              /\ run.script[k - 1] = <<"bpy.ops.object.delete(use_global=False, confirm=False)">>
              /\ run.script[k] = <<"results = []">>
              /\ SubSeq(run.script, k + 1, k + Len(run.operations)) = run.operations
              /\ Len(run.script) > k + Len(run.operations)
              /\ run.script[k + Len(run.operations) + 1] =
                    <<"print(\"BLENDER_MCP_SUCCESS:\", json.dumps({\"success\": True, \"results\": results}))">>
        /\ Len(run.script) = Len(create_basic_script(<<>>)) + Len(run.operations)
        /\ tempDirExists /\ scriptFile = NoFile /\ madeDirs = {}
        /\ \A c \in Callers : call[c] = IdleCall

C23_Witness ==
    /\ run.pc = "built"
    /\ Len(run.operations) = 2
    /\ run.operations[1] # run.operations[2]
    /\ run.script[Len(TemplateHead) + 1] = run.operations[1]
    /\ run.script[Len(TemplateHead) + 2] = run.operations[2]

----------------------------------------------------------------------------
(* Properties of the responses *)

\* the dict the call's entry point returns for the executor result `result`
ResponseFor(c, result) ==
    IF call[c].layer = "mcp" THEN RespondWith(call[c], result)[1].text.json
    ELSE RespondWith(call[c], result)

\* C24: in every tool response built from an execution result, success is
\* the executor's success and blender_output is the executor's stdout; when
\* the executor returned its normal result these are (exit code = 0) and
\* the captured stdout; and a different stdout (another marker line) would
\* change no field of the response but blender_output.
C24_OutputForwardedUnparsed ==
    \A c \in Callers :
        BuiltFromResult(c) =>
            /\ ResponseDict(c).success = call[c].result.success
            /\ ResponseDict(c).blender_output = Get(call[c].result, "stdout", "")
            /\ NormalCompletion(c) =>
                  /\ ResponseDict(c).success = (call[c].proc.returncode = 0)
                  /\ ResponseDict(c).blender_output = call[c].proc.stdout
                  /\ \A out \in Stdouts :
                        ResponseFor(c, [call[c].result EXCEPT !.stdout = out])
                            = [ResponseDict(c) EXCEPT !.blender_output = out]

C24_Witness ==
    \E c \in Callers :
        /\ BuiltFromResult(c)
        /\ NormalCompletion(c)
        /\ call[c].proc.returncode = 0
        /\ call[c].proc.stdout = "BLENDER_MCP_ERROR: {...}"
        /\ ResponseDict(c).success = TRUE
        /\ ResponseDict(c).blender_output = "BLENDER_MCP_ERROR: {...}"

----------------------------------------------------------------------------
(* Termination of the Process Executor *)

\* C25: every call of execute_blender_script returns a result: once inside,
\* it is followed by a state in which the call has returned (and no
\* exception has left it), whatever the file system and the subprocess do.
C25_EveryCallReturns ==
    \A c \in {1} :
        InExecute(c) ~> (call[c].pc = "returned" /\ DOMAIN call[c].result # {})

C25_Witness ==
    \E c \in Callers :
        /\ call[c].layer = "executor"
        /\ call[c].pc = "returned"
        /\ call[c].result = TimeoutResult
        /\ Len(call[c].launched) = 1
        /\ call[c].blend_file = "scene.blend"

----------------------------------------------------------------------------
(* Properties across invocations *)

\* what the entry point of a call does with the same parameters in a
\* server that has served nothing yet: it depends on the parameters (and on
\* what os.makedirs meets) only
FreshOutcome(cl, mk) ==
    CASE cl.layer = "executor" -> Execute(EmptyDict, cl.args.script, {})
      [] cl.layer = "mcp" -> call_tool(cl.tool, cl.args, mk)
      [] cl.layer = "server" /\ cl.tool = "export_model" -> export_model(cl.args, mk)
      [] cl.layer = "server" /\ cl.tool = "save_blend_file" -> save_blend_file(cl.args, mk)
      [] cl.layer = "server" /\ cl.tool = "create_cube" ->
           LET a == create_cube_bind(cl.args)
           IN Execute(a, create_basic_script(create_cube_ops(a)), {})
      [] cl.layer = "server" /\ cl.tool = "create_sphere" ->
           LET a == create_sphere_bind(cl.args)
           IN Execute(a, create_basic_script(create_sphere_ops(a)), {})
      [] cl.layer = "server" /\ cl.tool = "create_cylinder" ->
           LET a == create_cylinder_bind(cl.args)
           IN Execute(a, create_basic_script(create_cylinder_ops(a)), {})
      [] cl.layer = "server" /\ cl.tool = "create_plane" ->
           LET a == create_plane_bind(cl.args)
           IN Execute(a, create_basic_script(create_plane_ops(a)), {})
      [] cl.layer = "server" /\ cl.tool = "create_cone" ->
           LET a == create_cone_bind(cl.args)
           IN Execute(a, create_basic_script(create_cone_ops(a)), {})
      [] cl.layer = "catalog" /\ cl.tool = "remesh_object" -> remesh_object(cl.args)
      [] cl.layer = "catalog" /\ cl.tool = "decimate_object" -> decimate_object(cl.args)
      [] cl.layer = "catalog" /\ cl.tool = "join_objects" -> join_objects(cl.args)

\* something of an earlier invocation is left: a staged script, a created
\* directory, or a removed temporary directory
HistoryLeft == scriptFile # NoFile \/ madeDirs # {} \/ ~tempDirExists

TempDirFiles == IF scriptFile = NoFile THEN {} ELSE {script_file}

\* C27: calls that do not overlap leave at most the one file temp_script.py
\* in the temporary directory, and a call that finds a script file left by
\* an earlier call replaces it: from its launch to its removal the file
\* holds the call's own script, and its subprocess is started on that
\* script.
C27_StaleScriptOverwritten ==
    /\ Cardinality(TempDirFiles) <= 1
    /\ TempDirFiles \subseteq {<<"/tmp/blender_mcp_x", "/", "temp_script.py">>}
    /\ \A c \in Callers :
          /\ call[c].pc \in {"launch", "wait", "remove"} =>
                scriptFile = call[c].script
          /\ \A i \in DOMAIN call[c].launched :
                call[c].launched[i].content = call[c].script

C27_Witness ==
    \E c \in Callers :
        /\ call[c].replaced = "another script"
        /\ Len(call[c].launched) = 1
        /\ call[c].launched[1].content = call[c].script
        /\ call[c].pc = "returned"

\* the executor returned a timeout or exception result
ErrorResultReturned(c) ==
    /\ BuiltFromResult(c)
    /\ DOMAIN call[c].result \cap {"stdout", "stderr"} = {}

\* C28: a tool response built from a timeout or exception result of the
\* executor has success = False, blender_output = "" and errors = "", and
\* has neither an error field nor a timeout field: the executor's message
\* and flag are not passed on.
C28_ErrorResultNotRelayed ==
    \A c \in Callers :
        ErrorResultReturned(c) =>
            /\ call[c].execExc # NoExc
            /\ "error" \in DOMAIN call[c].result
            /\ ResponseDict(c).success = FALSE
            /\ ResponseDict(c).blender_output = ""
            /\ ResponseDict(c).errors = ""
            /\ DOMAIN ResponseDict(c) \cap {"error", "timeout", "traceback"} = {}

C28_Witness ==
    \E c \in Callers :
        /\ ErrorResultReturned(c)
        /\ call[c].layer = "mcp"
        /\ call[c].result = TimeoutResult
        /\ ResponseDict(c).blender_output = ""
        /\ ResponseDict(c).errors = ""

----------------------------------------------------------------------------
(* Properties of cleanup *)

----------------------------------------------------------------------------
(* Properties of the file tools *)

IsFileTool(c) ==
    /\ call[c].layer \in {"server", "mcp"}
    /\ call[c].tool \in {"save_blend_file", "export_model"}
    /\ call[c].pc # "wrapper"

\* the extension the tool appends
FileExtension(c) ==
    IF call[c].tool = "save_blend_file" THEN <<".", "b", "l", "e", "n", "d">>
    ELSE <<".">> \o Lower(ExportFormat(c))

\* the path with its extension
FullPath(c) ==
    LET given == Get(call[c].args, "filepath", <<>>)
    IN IF EndsWith(given, FileExtension(c)) THEN given ELSE given \o FileExtension(c)

\* the tool gets as far as os.makedirs: the mcp handler was given a path,
\* export_model a format of its list
ReachesMakedirs(c) ==
    /\ IsFileTool(c)
    /\ call[c].layer = "mcp" => Get(call[c].args, "filepath", <<>>) # <<>>
    /\ call[c].tool = "export_model" => Lower(ExportFormat(c)) \in ExportFormats

\* C30: save_blend_file and export_model give the path its extension and
\* create its parent directory before the script is built; when that
\* creation raises, as it does for a path without a directory part, no
\* script is built or staged and no subprocess is started, the exception
\* leaves the server.py function, and the dispatcher of mcp_server.py
\* returns {success: False, error: <message of the exception>}.
C30_MakedirsFailure ==
    \A c \in Callers :
        ReachesMakedirs(c) =>
            /\ dirname(FullPath(c)) = <<>> => call[c].toolExc.type = "FileNotFoundError"
            /\ call[c].toolExc = NoExc =>
                  /\ call[c].locals.filepath = FullPath(c)
                  /\ dirname(FullPath(c)) \in call[c].mkdirs
                  /\ call[c].mkdirs \subseteq madeDirs
                  /\ ReachedExecution(c)
                  /\ \E i \in DOMAIN call[c].script :
                        Contains(call[c].script[i], FullPath(c))
            /\ call[c].toolExc # NoExc =>
                  /\ NoExecution(c)
                  /\ IF call[c].layer = "server"
                     THEN call[c].pc = "raised" /\ call[c].exc = call[c].toolExc
                     ELSE /\ call[c].pc = "returned"
                          /\ call[c].exc = NoExc
                          /\ ResponseDict(c) = [success |-> FALSE,
                                                error |-> call[c].toolExc.msg]

C30_Witness ==
    \E c \in Callers :
        /\ ReachesMakedirs(c)
        /\ call[c].layer = "mcp"
        /\ call[c].tool = "save_blend_file"
        /\ call[c].args.filepath = <<"m">>
        /\ call[c].toolExc.type = "FileNotFoundError"
        /\ ResponseDict(c).success = FALSE
        /\ scriptFile = NoFile

====
